---------------------------- MODULE Spec2Model ----------------------------
(***************************************************************************)
(* Eligibility decision engine of the AMU course-registration backend:     *)
(* the business rules (backend/business_rules.py), the backlog extraction  *)
(* and the eligibility analysis (backend/agents/eligibility_agent.py), the *)
(* course recommendation (backend/agents/course_selector.py) and the       *)
(* retrieval (backend/services/vector_store.py, retriever.py).             *)
(*                                                                         *)
(* Conventions.  A Python float cgpa is carried in hundredths (7.5 is      *)
(* 750).  A Python f-string is a tuple of its literal pieces and the       *)
(* values formatted into it, in order.  A Python dict is a function whose  *)
(* DOMAIN is the set of keys present.  Non-ASCII characters of message     *)
(* literals are transliterated.                                            *)
(***************************************************************************)
EXTENDS Integers, Sequences, FiniteSets, TLC

VARIABLES
    rule_call,    \* a call of a business rule: the function and its arguments
    rule_result,  \* what the call returned (NoResult before it returns)
    student,      \* the row of table students the requests are about, or NoStudent
    courses,      \* table courses: course id -> row
    records,      \* table academic_records of the student, in query order
    extraction,   \* the last backlog extraction: function, records read, result
    verdict,      \* what the last analyze_eligibility call returned
    recommendation, \* what the last recommend_courses call returned
    index,        \* VectorStore.index: the vectors added, or NoIndex
    documents,    \* VectorStore.documents
    metadatas,    \* VectorStore.metadatas
    retrieval,    \* the last retrieve_context call: arguments and outcome
    llm_calls,    \* text-generation calls made by the last analyze_eligibility
    response,     \* what the last GET /api/eligibility request was answered
    chat,         \* the outcome of the last handle_chat call
    registrations, \* table registrations, in insertion order
    submission,   \* the last registration submission: entry point and outcome
    disk          \* the files of the vector store: faiss.index, metadata.pkl

vars == <<rule_call, rule_result, student, courses, records, extraction, verdict,
          recommendation, index, documents, metadatas, retrieval,
          llm_calls, response, chat, registrations, submission, disk>>

ruleVars == <<rule_call, rule_result>>
dbVars == <<student, courses, records>>
storeVars == <<index, documents, metadatas>>
apiVars == <<response, chat, registrations, submission, disk>>
ragVars == <<recommendation, storeVars, retrieval, llm_calls, apiVars>>

---------------------------------------------------------------------------
(* Bounds of the model *)

\* current_semester ranges over 0..MaxSemester (1..8 are real semesters)
MaxSemester == 9

\* not_promoted_count ranges over -1..MaxNotPromoted
MaxNotPromoted == 5

\* total_earned_credits values tried: around 16, 60 and 108
CreditTotals == {15, 16, 55, 59, 60, 65, 107, 108}

\* per-semester earned credits tried for semesters 1..4
SemCreditChoices == {15, 18, 20, 21, 22}

\* semester_wise_credits: keys 1..4 present or not, key 5 present or not
SemCreditMaps ==
    UNION { [K -> SemCreditChoices] : K \in SUBSET (1..4) }

SemCreditMapsWithLater ==
    SemCreditMaps \cup
    { [k \in DOMAIN m \cup {5} |-> IF k = 5 THEN 20 ELSE m[k]] : m \in SemCreditMaps }

\* cgpa values tried, in hundredths
CgpaChoices == {0, 749, 750, 751, 800, 1000}

\* academic records inserted before backlog extraction is studied
MaxRecords == 3

\* course ids and attempt numbers of the records inserted
CourseIds == {1, 2}
AttemptNumbers == {1, 2}

\* grades tried: D (passes a theory course, fails a lab), and the failing E, F
Grades == {"D", "E", "F"}

Statuses == {"REGISTERED", "PASSED", "FAILED"}

\* academic records of the student whose eligibility is analysed
MaxStudentRecords == 2

\* not_promoted_count of that student ranges over 0..MaxStudentNotPromoted
MaxStudentNotPromoted == 3

\* that student's semester: odd, checkpoint 4, III year odd, III year checkpoint
StudentSemesters == {3, 4, 5, 6}

\* that student's cgpa (hundredths) and total_earned_credits
StudentCgpas == {749, 750}
StudentCredits == {60, 108}

\* (grade, status) of that student's records
StudentGradeStatus ==
    {<<"D", "PASSED">>, <<"E", "FAILED">>, <<"F", "REGISTERED">>, <<"E", "PASSED">>}

\* the retrieved context, by its length: 40 is the length of the sentinel
\* "No relevant ordinance information found."
ContextLengths == {40, 49, 50}

\* replies of the text-generation service, as stripped lines
LlmReplies ==
    { <<"">>,
      <<"# Plan", "", "- Clear backlogs">>,
      <<"- a", "- b", "- c", "- d">> }

\* the rows inserted into academic_records when extraction is studied
BacklogRecords ==
    [course_id : CourseIds, attempt_number : AttemptNumbers, grade : Grades,
     status : Statuses, semester : {1}, attendance_fulfilled : {FALSE}]

---------------------------------------------------------------------------
(* business_rules.py: constants *)

\* PROMOTION_REQUIREMENTS[s].min_earned_credits
PROMOTION_REQUIREMENTS == (2 :> 16) @@ (4 :> 60) @@ (6 :> 108)

MAX_NOT_PROMOTED_COUNT == 3

\* 7.5, in hundredths
MIN_CGPA_FOR_ADVANCE == 750

ADVANCE_ELIGIBLE_SEMESTERS == {5, 6}

---------------------------------------------------------------------------
(* business_rules.py: rule functions *)

NoResult == <<>>

\* dict.get(k, 0)
Get0(d, k) == IF k \in DOMAIN d THEN d[k] ELSE 0

\* sum(d.get(i, 0) for i in range(lo, hi + 1))
RECURSIVE SumGet(_, _, _)
SumGet(d, lo, hi) ==
    IF lo > hi THEN 0 ELSE Get0(d, lo) + SumGet(d, lo + 1, hi)

\* line 89: the semesters at which promotion is checked
promotion_checked(current_semester) ==
    current_semester \in DOMAIN PROMOTION_REQUIREMENTS

\* line 100
first_two_sem_credits(semester_wise_credits) ==
    Get0(semester_wise_credits, 1) + Get0(semester_wise_credits, 2)

\* a sum that stops one semester early
first_four_sem_credits_short(semester_wise_credits) ==
    SumGet(semester_wise_credits, 1, 3)

\* line 106: sum(semester_wise_credits.get(i, 0) for i in range(1, 5))
first_four_sem_credits(semester_wise_credits) ==
    SumGet(semester_wise_credits, 1, 4)

\* the partial-sum checks made before the total-credit check
check_promotion_eligibility_partial_first(current_semester, total_earned_credits, semester_wise_credits) ==
    IF ~promotion_checked(current_semester)
    THEN <<TRUE, <<"Promotion check only at even semesters">> >>
    ELSE
      LET req == PROMOTION_REQUIREMENTS[current_semester]
          two == first_two_sem_credits(semester_wise_credits)
          four == first_four_sem_credits(semester_wise_credits)
      IN  IF current_semester = 4 /\ two < 36
          THEN <<FALSE, <<"Need 36 credits from first two semesters. Current: ", two>> >>
          ELSE IF current_semester = 6 /\ four < 80
          THEN <<FALSE, <<"Need 80 credits from first four semesters. Current: ", four>> >>
          ELSE IF total_earned_credits < req
          THEN <<FALSE, <<"Insufficient credits: ", total_earned_credits, "/", req>> >>
          ELSE <<TRUE, <<"Promotion eligible: ", total_earned_credits, "/", req,
                         " credits">> >>

\* every even semester taken for a checkpoint, semester 6's requirement used
\* where none is listed
check_promotion_eligibility_all_even(current_semester, total_earned_credits, semester_wise_credits) ==
    IF current_semester % 2 # 0
    THEN <<TRUE, <<"Promotion check only at even semesters">> >>
    ELSE
      LET req == IF promotion_checked(current_semester)
                 THEN PROMOTION_REQUIREMENTS[current_semester]
                 ELSE PROMOTION_REQUIREMENTS[6]
      IN  IF total_earned_credits < req
          THEN <<FALSE, <<"Insufficient credits: ", total_earned_credits, "/", req>> >>
          ELSE <<TRUE, <<"Promotion eligible: ", total_earned_credits, "/", req,
                         " credits">> >>

check_promotion_eligibility(current_semester, total_earned_credits, semester_wise_credits) ==
    IF ~promotion_checked(current_semester)
    THEN <<TRUE, <<"Promotion check only at even semesters">> >>
    ELSE
      LET req == PROMOTION_REQUIREMENTS[current_semester]
          two == first_two_sem_credits(semester_wise_credits)
          four == first_four_sem_credits(semester_wise_credits)
      IN  IF total_earned_credits < req
          THEN <<FALSE, <<"Insufficient credits: ", total_earned_credits, "/", req>> >>
          ELSE IF current_semester = 4 /\ two < 36
          THEN <<FALSE, <<"Need 36 credits from first two semesters. Current: ", two>> >>
          ELSE IF current_semester = 6 /\ four < 80
          THEN <<FALSE, <<"Need 80 credits from first four semesters. Current: ", four>> >>
          ELSE <<TRUE, <<"Promotion eligible: ", total_earned_credits, "/", req,
                         " credits">> >>

\* the threshold compared with > in place of >=
check_name_removal_risk_strict(not_promoted_count) ==
    IF not_promoted_count > MAX_NOT_PROMOTED_COUNT
    THEN <<"CRITICAL", "NAME_REMOVAL",
           <<"Name will be removed! Not promoted ", not_promoted_count,
             " times (max: ", MAX_NOT_PROMOTED_COUNT, ")">> >>
    ELSE IF not_promoted_count = 2
    THEN <<"HIGH", "WARNING",
           <<"WARNING: Not promoted 2 times. One more failure -> Name removal!">> >>
    ELSE IF not_promoted_count = 1
    THEN <<"MEDIUM", "CAUTION", <<"CAUTION: Not promoted once. Be careful!">> >>
    ELSE <<"LOW", "SAFE", <<"Good standing">> >>

check_name_removal_risk(not_promoted_count) ==
    IF not_promoted_count >= MAX_NOT_PROMOTED_COUNT
    THEN <<"CRITICAL", "NAME_REMOVAL",
           <<"Name will be removed! Not promoted ", not_promoted_count,
             " times (max: ", MAX_NOT_PROMOTED_COUNT, ")">> >>
    ELSE IF not_promoted_count = 2
    THEN <<"HIGH", "WARNING",
           <<"WARNING: Not promoted 2 times. One more failure -> Name removal!">> >>
    ELSE IF not_promoted_count = 1
    THEN <<"MEDIUM", "CAUTION", <<"CAUTION: Not promoted once. Be careful!">> >>
    ELSE <<"LOW", "SAFE", <<"Good standing">> >>

\* advancement granted whether or not backlogs are pending
check_advance_eligibility_despite_backlogs(current_semester, cgpa, has_backlogs) ==
    IF current_semester \notin ADVANCE_ELIGIBLE_SEMESTERS
    THEN <<FALSE, <<"Advancement only for III year students (Sem 5/6)">> >>
    ELSE IF cgpa < MIN_CGPA_FOR_ADVANCE
    THEN <<FALSE, <<"CGPA must be >= ", MIN_CGPA_FOR_ADVANCE, ". Current: ", cgpa>> >>
    ELSE <<TRUE, <<"Eligible for advancement (CGPA: ", cgpa, ", No backlogs)">> >>

\* the backlog test made before the cgpa test
check_advance_eligibility_backlogs_first(current_semester, cgpa, has_backlogs) ==
    IF current_semester \notin ADVANCE_ELIGIBLE_SEMESTERS
    THEN <<FALSE, <<"Advancement only for III year students (Sem 5/6)">> >>
    ELSE IF has_backlogs
    THEN <<FALSE, <<"Cannot advance with pending backlogs">> >>
    ELSE IF cgpa < MIN_CGPA_FOR_ADVANCE
    THEN <<FALSE, <<"CGPA must be >= ", MIN_CGPA_FOR_ADVANCE, ". Current: ", cgpa>> >>
    ELSE <<TRUE, <<"Eligible for advancement (CGPA: ", cgpa, ", No backlogs)">> >>

\* the cgpa compared with <= in place of <
check_advance_eligibility_strict(current_semester, cgpa, has_backlogs) ==
    IF current_semester \notin ADVANCE_ELIGIBLE_SEMESTERS
    THEN <<FALSE, <<"Advancement only for III year students (Sem 5/6)">> >>
    ELSE IF cgpa <= MIN_CGPA_FOR_ADVANCE
    THEN <<FALSE, <<"CGPA must be >= ", MIN_CGPA_FOR_ADVANCE, ". Current: ", cgpa>> >>
    ELSE IF has_backlogs
    THEN <<FALSE, <<"Cannot advance with pending backlogs">> >>
    ELSE <<TRUE, <<"Eligible for advancement (CGPA: ", cgpa, ", No backlogs)">> >>

check_advance_eligibility(current_semester, cgpa, has_backlogs) ==
    IF current_semester \notin ADVANCE_ELIGIBLE_SEMESTERS
    THEN <<FALSE, <<"Advancement only for III year students (Sem 5/6)">> >>
    ELSE IF cgpa < MIN_CGPA_FOR_ADVANCE
    THEN <<FALSE, <<"CGPA must be >= ", MIN_CGPA_FOR_ADVANCE, ". Current: ", cgpa>> >>
    ELSE IF has_backlogs
    THEN <<FALSE, <<"Cannot advance with pending backlogs">> >>
    ELSE <<TRUE, <<"Eligible for advancement (CGPA: ", cgpa, ", No backlogs)">> >>

---------------------------------------------------------------------------
(* Backlog extraction: business_rules.get_backlog_courses and              *)
(* EligibilityAgent._get_backlogs                                          *)

\* table courses with both courses of the model present
FullCatalog ==
    (1 :> [id |-> 1, course_code |-> "C1", course_name |-> "Course 1",
           credits |-> 20, semester |-> 1]) @@
    (2 :> [id |-> 2, course_code |-> "C2", course_name |-> "Course 2",
           credits |-> 16, semester |-> 2])

\* the keys of course_attempts in insertion order: each course_id at its
\* first appearance
RECURSIVE CourseOrder(_)
CourseOrder(recs) ==
    IF recs = <<>> THEN <<>>
    ELSE LET front == CourseOrder(SubSeq(recs, 1, Len(recs) - 1))
             c == recs[Len(recs)].course_id
         IN  IF \E i \in 1..Len(front) : front[i] = c THEN front ELSE Append(front, c)

\* course_attempts[course_id]
AttemptsOf(recs, c) == SelectSeq(recs, LAMBDA r : r.course_id = c)

\* record.get('attempt_number', 1)
AttemptKey(r) == IF "attempt_number" \in DOMAIN r THEN r.attempt_number ELSE 1

\* max(attempts, key=...): Python returns the first of the maximal elements
MaxByAttempt(attempts) ==
    LET i == CHOOSE k \in 1..Len(attempts) :
                 /\ \A j \in 1..Len(attempts) : AttemptKey(attempts[j]) <= AttemptKey(attempts[k])
                 /\ \A j \in 1..(k - 1) : AttemptKey(attempts[j]) < AttemptKey(attempts[k])
    IN  attempts[i]

\* business_rules.py line 291
RulesIsBacklog(latest_attempt) ==
    latest_attempt.grade \in {"E", "F"} \/ latest_attempt.status = "FAILED"

RECURSIVE RulesBacklogsOver(_, _)
RulesBacklogsOver(recs, order) ==
    IF order = <<>> THEN <<>>
    ELSE LET front == RulesBacklogsOver(recs, SubSeq(order, 1, Len(order) - 1))
             course_id == order[Len(order)]
             latest_attempt == MaxByAttempt(AttemptsOf(recs, course_id))
         IN  IF RulesIsBacklog(latest_attempt)
             THEN Append(front, [course_id |-> course_id,
                                 grade |-> latest_attempt.grade,
                                 attempt_number |-> AttemptKey(latest_attempt),
                                 attendance_fulfilled |-> latest_attempt.attendance_fulfilled])
             ELSE front

get_backlog_courses(academic_records) ==
    RulesBacklogsOver(academic_records, CourseOrder(academic_records))

\* eligibility_agent.py line 147
AgentIsBacklog(latest) ==
    latest.grade \in {"E", "F"} /\ latest.status # "PASSED"

RECURSIVE AgentBacklogsOver(_, _, _)
AgentBacklogsOver(catalog, recs, order) ==
    IF order = <<>> THEN <<>>
    ELSE LET front == AgentBacklogsOver(catalog, recs, SubSeq(order, 1, Len(order) - 1))
             course_id == order[Len(order)]
             latest == MaxByAttempt(AttemptsOf(recs, course_id))
         IN  IF AgentIsBacklog(latest) /\ course_id \in DOMAIN catalog
             THEN LET course == catalog[course_id]
                  IN  Append(front, [course_id |-> course.id,
                                     course_code |-> course.course_code,
                                     course_name |-> course.course_name,
                                     credits |-> course.credits,
                                     semester |-> course.semester,
                                     attempt_number |-> latest.attempt_number,
                                     attendance_fulfilled |-> latest.attendance_fulfilled])
             ELSE front

\* EligibilityAgent._get_backlogs, reading table courses
get_backlogs(catalog, recs) ==
    AgentBacklogsOver(catalog, recs, CourseOrder(recs))

---------------------------------------------------------------------------
(* The record set grows by inserts; either extraction may run on it at any *)
(* time and returns a list.                                                *)

NoStudent == [id |-> 0]

NoExtraction == [fn |-> "none", at |-> 0, outcome |-> "none", result |-> <<>>]

NoVerdict == [kind |-> "none"]

RulesIdle == rule_call = [fn |-> "none"] /\ rule_result = NoResult

NoRecommendation == [kind |-> "none"]

\* self.index = None
NoIndex == [none |-> TRUE]

NoRetrieval == [outcome |-> "none"]

NoResponse == [kind |-> "none"]

NoChat == [outcome |-> "none"]

NoSubmission == [via |-> "none"]

\* a file that does not exist
NoFile == [none |-> TRUE]

\* neither faiss.index nor metadata.pkl exists
NoFiles == [index_file |-> NoFile, metadata_file |-> NoFile]

\* no request answered, no chat handled, no registration stored
ApiIdle ==
    /\ response = NoResponse
    /\ chat = NoChat
    /\ registrations = <<>>
    /\ submission = NoSubmission
    /\ disk = NoFiles

\* no course recommendation asked, the vector store as constructed without
\* an index file
RagIdle ==
    /\ recommendation = NoRecommendation
    /\ index = NoIndex
    /\ documents = <<>>
    /\ metadatas = <<>>
    /\ retrieval = NoRetrieval
    /\ llm_calls = 0
    /\ ApiIdle

InitBacklog ==
    /\ RulesIdle
    /\ student = NoStudent
    /\ courses = FullCatalog
    /\ records = <<>>
    /\ extraction = NoExtraction
    /\ verdict = NoVerdict
    /\ RagIdle

\* a row is inserted into academic_records; neither function raises: each
\* returns its list
AddRecord ==
    /\ Len(records) < MaxRecords
    /\ \E r \in BacklogRecords : records' = Append(records, r)
    /\ UNCHANGED <<ragVars, ruleVars, student, courses, extraction, verdict>>

ExtractByRules ==
    /\ extraction' = [fn |-> "get_backlog_courses", at |-> Len(records),
                      outcome |-> "returned", result |-> get_backlog_courses(records)]
    /\ UNCHANGED <<ragVars, ruleVars, dbVars, verdict>>

ExtractByAgent ==
    /\ extraction' = [fn |-> "_get_backlogs", at |-> Len(records),
                      outcome |-> "returned", result |-> get_backlogs(courses, records)]
    /\ UNCHANGED <<ragVars, ruleVars, dbVars, verdict>>

NextBacklog == AddRecord \/ ExtractByRules \/ ExtractByAgent

SpecBacklog == InitBacklog /\ [][NextBacklog]_vars

---------------------------------------------------------------------------
(* EligibilityAgent.analyze_eligibility                                    *)

None == [none |-> TRUE]

\* lines 60-66: credits of PASSED records per record semester, for the
\* courses found in table courses
RECURSIVE SemCredits(_, _)
SemCredits(catalog, recs) ==
    IF recs = <<>> THEN <<>>
    ELSE LET sem_credits == SemCredits(catalog, SubSeq(recs, 1, Len(recs) - 1))
             r == recs[Len(recs)]
         IN  IF r.status = "PASSED" /\ r.course_id \in DOMAIN catalog
             THEN [k \in DOMAIN sem_credits \cup {r.semester} |->
                      IF k = r.semester
                      THEN Get0(sem_credits, r.semester) + catalog[r.course_id].credits
                      ELSE sem_credits[k]]
             ELSE sem_credits

\* CURRENT allowed whatever the risk level
AllowedTypesAlwaysCurrent(risk_level, has_backlogs, can_advance) ==
    <<"CURRENT">> \o
    (IF has_backlogs THEN <<"BACKLOG">> ELSE <<>>) \o
    (IF can_advance THEN <<"ADVANCE">> ELSE <<>>)

\* BACKLOG offered only to students who may not register for current courses
AllowedTypesBacklogIfBlocked(risk_level, has_backlogs, can_advance) ==
    (IF risk_level # "CRITICAL" THEN <<"CURRENT">> ELSE <<>>) \o
    (IF has_backlogs /\ risk_level = "CRITICAL" THEN <<"BACKLOG">> ELSE <<>>) \o
    (IF can_advance THEN <<"ADVANCE">> ELSE <<>>)

\* lines 89-96
AllowedTypes(risk_level, has_backlogs, can_advance) ==
    (IF risk_level # "CRITICAL" THEN <<"CURRENT">> ELSE <<>>) \o
    (IF has_backlogs THEN <<"BACKLOG">> ELSE <<>>) \o
    (IF can_advance THEN <<"ADVANCE">> ELSE <<>>)

\* the backlog message put before the risk message
WarningsBacklogFirst(risk_level, risk_msg, backlogs) ==
    (IF Len(backlogs) > 0
     THEN << <<"You have ", Len(backlogs), " backlog course(s)">> >>
     ELSE <<>>) \o
    (IF risk_level # "LOW" THEN <<risk_msg>> ELSE <<>>)

\* lines 98-103
Warnings(risk_level, risk_msg, backlogs) ==
    (IF risk_level # "LOW" THEN <<risk_msg>> ELSE <<>>) \o
    (IF Len(backlogs) > 0
     THEN << <<"You have ", Len(backlogs), " backlog course(s)">> >>
     ELSE <<>>)

\* registration blocked from risk level HIGH on
StatusBlockedFromHigh(risk_level) ==
    IF risk_level \in {"HIGH", "CRITICAL"} THEN "BLOCKED" ELSE "ELIGIBLE"

\* line 116
Status(risk_level) ==
    IF risk_level = "CRITICAL" THEN "BLOCKED" ELSE "ELIGIBLE"

\* lines 180-188: the rule-based recommendations
RuleBasedRecommendations(risk_level, has_backlogs, can_advance) ==
    (IF risk_level = "CRITICAL" THEN <<"URGENT: Meet with advisor immediately!">>
     ELSE IF has_backlogs THEN <<"Clear backlog courses this semester">>
     ELSE <<>>) \o
    (IF can_advance THEN <<"You can register for advanced courses">> ELSE <<>>)

\* line 210: the non-empty lines that are no heading, at most three
HeadingLines == {"# Plan"}

ReplyLines(reply) ==
    LET kept == SelectSeq(reply, LAMBDA r : r # "" /\ r \notin HeadingLines)
    IN  SubSeq(kept, 1, IF Len(kept) < 3 THEN Len(kept) ELSE 3)

\* What the services outside the engine do during one call: the retriever
\* returns a context (of some length) or the embedding call raises; the
\* text-generation call returns a reply or raises.  A field that the outcome
\* leaves unread has one value.
Environments ==
    { e \in [retrieval_raises : BOOLEAN, context_len : ContextLengths,
             llm_raises : BOOLEAN, reply : LlmReplies] :
        /\ e.retrieval_raises => e.context_len = 40
        /\ (e.retrieval_raises \/ e.context_len < 50) => ~e.llm_raises
        /\ (e.retrieval_raises \/ e.context_len < 50 \/ e.llm_raises) => e.reply = <<"">> }

\* the text-generation service asked on any context that is not empty
RagRecommendationsOnAnyContext(env, can_advance, has_backlogs, risk_level) ==
    LET retrieves == risk_level = "CRITICAL" \/ can_advance
        context_len == IF retrieves THEN env.context_len ELSE 0
    IN  IF retrieves /\ env.retrieval_raises
        THEN [raised |-> TRUE, llm_invoked |-> FALSE, recommendations |-> <<>>]
        ELSE IF context_len = 0
        THEN [raised |-> FALSE, llm_invoked |-> FALSE,
              recommendations |-> RuleBasedRecommendations(risk_level, has_backlogs, can_advance)]
        ELSE IF env.llm_raises
        THEN [raised |-> FALSE, llm_invoked |-> TRUE,
              recommendations |-> <<"Register for current semester courses",
                                    "Maintain CGPA above 7.5">>]
        ELSE [raised |-> FALSE, llm_invoked |-> TRUE,
              recommendations |-> ReplyLines(env.reply)]

\* _get_rag_recommendations: [raised |-> TRUE] when the retrieval raises,
\* the recommendations otherwise; llm_invoked: self.llm.invoke was called
\* (line 208)
RagRecommendations(env, can_advance, has_backlogs, risk_level) ==
    LET retrieves == risk_level = "CRITICAL" \/ can_advance
        context_len == IF retrieves THEN env.context_len ELSE 0
    IN  IF retrieves /\ env.retrieval_raises
        THEN [raised |-> TRUE, llm_invoked |-> FALSE, recommendations |-> <<>>]
        ELSE IF context_len = 0 \/ context_len < 50
        THEN [raised |-> FALSE, llm_invoked |-> FALSE,
              recommendations |-> RuleBasedRecommendations(risk_level, has_backlogs, can_advance)]
        ELSE IF env.llm_raises
        THEN [raised |-> FALSE, llm_invoked |-> TRUE,
              recommendations |-> <<"Register for current semester courses",
                                    "Maintain CGPA above 7.5">>]
        ELSE [raised |-> FALSE, llm_invoked |-> TRUE,
              recommendations |-> ReplyLines(env.reply)]

\* lines 78-87 and 106: the text-generation service is called in the
\* course of analyze_eligibility
llm_invoked_by(env, stu, catalog, recs) ==
    /\ stu # NoStudent
    /\ LET risk == check_name_removal_risk(stu.not_promoted_count)
           has_backlogs == Len(get_backlogs(catalog, recs)) > 0
           adv == check_advance_eligibility(stu.current_semester, stu.cgpa, has_backlogs)
       IN  RagRecommendations(env, adv[1], has_backlogs, risk[1]).llm_invoked

analyze_eligibility(env, stu, catalog, recs) ==
    IF stu = NoStudent
    THEN [kind |-> "error", error |-> "Student not found"]
    ELSE
      LET sem_credits == SemCredits(catalog, recs)
          promo == check_promotion_eligibility(stu.current_semester,
                                               stu.total_earned_credits, sem_credits)
          risk == check_name_removal_risk(stu.not_promoted_count)
          risk_level == risk[1]
          risk_msg == risk[3]
          backlogs == get_backlogs(catalog, recs)
          has_backlogs == Len(backlogs) > 0
          adv == check_advance_eligibility(stu.current_semester, stu.cgpa, has_backlogs)
          can_advance == adv[1]
          rag == RagRecommendations(env, can_advance, has_backlogs, risk_level)
      IN  IF rag.raised
          THEN [kind |-> "raised"]
          ELSE [kind |-> "verdict",
                student_id |-> stu.id,
                current_semester |-> stu.current_semester,
                cgpa |-> stu.cgpa,
                total_earned_credits |-> stu.total_earned_credits,
                not_promoted_count |-> stu.not_promoted_count,
                status |-> Status(risk_level),
                can_register |-> risk_level # "CRITICAL",
                can_advance |-> can_advance,
                has_backlogs |-> has_backlogs,
                backlog_count |-> Len(backlogs),
                allowed_registration_types |->
                    AllowedTypes(risk_level, has_backlogs, can_advance),
                warnings |-> Warnings(risk_level, risk_msg, backlogs),
                recommendations |-> rag.recommendations,
                risk_level |-> risk_level,
                backlog_courses |-> backlogs,
                promotion_status |->
                    IF stu.current_semester % 2 = 0
                    THEN [can_promote |-> promo[1], reason |-> promo[2]]
                    ELSE None]

---------------------------------------------------------------------------
(* One student's data is loaded and eligibility requests are answered on   *)
(* it.  verdict is the answer to the request made on the data as they are: *)
(* an insert leaves no answer, and the next request is answered afresh.    *)

Students ==
    [id : {1}, current_semester : StudentSemesters, cgpa : StudentCgpas,
     total_earned_credits : StudentCredits,
     not_promoted_count : 0..MaxStudentNotPromoted]

StudentRecords ==
    { r \in [course_id : CourseIds, attempt_number : AttemptNumbers, grade : Grades,
             status : Statuses, semester : {1}, attendance_fulfilled : {FALSE}] :
        <<r.grade, r.status>> \in StudentGradeStatus }

\* table courses: complete, or without a row for course 2
Catalogs == {FullCatalog, [c \in {1} |-> FullCatalog[c]]}

Init ==
    /\ RulesIdle
    /\ student \in Students \cup {NoStudent}
    /\ courses \in Catalogs
    /\ records = <<>>
    /\ extraction = NoExtraction
    /\ verdict = NoVerdict
    /\ RagIdle

InsertRecord ==
    /\ student # NoStudent
    /\ Len(records) < MaxStudentRecords
    /\ \E r \in StudentRecords : records' = Append(records, r)
    /\ verdict' = NoVerdict
    /\ UNCHANGED <<ragVars, ruleVars, student, courses, extraction>>

\* one analyze_eligibility call in which the services behave as one of envs
Analyze(envs) ==
    /\ verdict = NoVerdict
    /\ \E env \in envs :
           /\ verdict' = analyze_eligibility(env, student, courses, records)
           /\ llm_calls' = IF llm_invoked_by(env, student, courses, records)
                           THEN 1 ELSE 0
    /\ UNCHANGED <<ruleVars, dbVars, extraction, recommendation, storeVars,
                   retrieval, apiVars>>

AnalyzeEligibility == Analyze(Environments)

Next == InsertRecord \/ AnalyzeEligibility

Spec == Init /\ [][Next]_vars

---------------------------------------------------------------------------
(* Calls of the rule functions: the arguments are drawn when the call is   *)
(* made (Init), the function is applied once and its result kept.          *)

PromotionCalls ==
    [fn : {"check_promotion_eligibility"},
     current_semester : 0..MaxSemester,
     total_earned_credits : CreditTotals,
     semester_wise_credits : SemCreditMapsWithLater]

RiskCalls ==
    [fn : {"check_name_removal_risk"},
     not_promoted_count : -1..MaxNotPromoted]

AdvanceCalls ==
    [fn : {"check_advance_eligibility"},
     current_semester : 0..MaxSemester,
     cgpa : CgpaChoices,
     has_backlogs : BOOLEAN]

InitRules ==
    /\ rule_call \in PromotionCalls \cup RiskCalls \cup AdvanceCalls
    /\ rule_result = NoResult
    /\ student = NoStudent
    /\ courses = FullCatalog
    /\ records = <<>>
    /\ extraction = NoExtraction
    /\ verdict = NoVerdict
    /\ RagIdle

CheckPromotion ==
    /\ rule_call.fn = "check_promotion_eligibility"
    /\ rule_result = NoResult
    /\ rule_result' = check_promotion_eligibility(rule_call.current_semester,
                                                  rule_call.total_earned_credits,
                                                  rule_call.semester_wise_credits)
    /\ UNCHANGED <<ragVars, rule_call, dbVars, extraction, verdict>>

CheckRisk ==
    /\ rule_call.fn = "check_name_removal_risk"
    /\ rule_result = NoResult
    /\ rule_result' = check_name_removal_risk(rule_call.not_promoted_count)
    /\ UNCHANGED <<ragVars, rule_call, dbVars, extraction, verdict>>

CheckAdvance ==
    /\ rule_call.fn = "check_advance_eligibility"
    /\ rule_result = NoResult
    /\ rule_result' = check_advance_eligibility(rule_call.current_semester,
                                                rule_call.cgpa,
                                                rule_call.has_backlogs)
    /\ UNCHANGED <<ragVars, rule_call, dbVars, extraction, verdict>>

NextRules == CheckPromotion \/ CheckRisk \/ CheckAdvance

SpecRules == InitRules /\ [][NextRules]_vars

---------------------------------------------------------------------------
(* Course recommendation (backend/agents/course_selector.py): the course   *)
(* query handler analyses the student's eligibility and hands the verdict  *)
(* to CourseSelectorAgent.recommend_courses (agents/graph.py, 138-141).    *)

MaxSelectorRecords == 2

\* table courses with rows in the semesters the students are in and next to
SelectorCatalog ==
    [c \in 1..5 |->
        [id |-> c,
         course_code |-> <<"C", c>>,
         course_name |-> <<"Course ", c>>,
         credits |-> <<4, 4, 2, 3, 4>>[c],
         semester |-> <<4, 5, 5, 6, 7>>[c],
         is_theory |-> c # 3,
         is_lab |-> c = 3,
         is_elective |-> FALSE]]

\* the ids of a result set in the order of the primary key
RECURSIVE IdOrder(_)
IdOrder(ids) ==
    IF ids = {} THEN <<>>
    ELSE LET least == CHOOSE c \in ids : \A d \in ids : c <= d
         IN  <<least>> \o IdOrder(ids \ {least})

\* lines 77-79: db.query(Course).filter(Course.semester == semester).all()
get_courses_by_semester(catalog, semester) ==
    LET ids == IdOrder({c \in DOMAIN catalog : catalog[c].semester = semester})
    IN  [i \in 1..Len(ids) |-> catalog[ids[i]]]

\* lines 81-92
course_to_dict(course) ==
    [course_id |-> course.id,
     course_code |-> course.course_code,
     course_name |-> course.course_name,
     credits |-> course.credits,
     semester |-> course.semester,
     is_theory |-> course.is_theory,
     is_lab |-> course.is_lab,
     is_elective |-> course.is_elective]

\* lines 94-100
generate_message(risk, backlog_count) ==
    IF risk = "CRITICAL" THEN <<"CRITICAL ACADEMIC STANDING. Contact Advisor.">>
    ELSE IF backlog_count > 0
    THEN <<"You have ", backlog_count, " backlog courses to clear.">>
    ELSE <<"You are on track. Proceed with registration.">>

\* the current courses kept at every risk level
current_courses_ungated(catalog, current_sem, risk_level) ==
    get_courses_by_semester(catalog, current_sem)

\* lines 40 and 55-59: the courses of the semester, none at risk CRITICAL
current_courses_of(catalog, current_sem, risk_level) ==
    IF risk_level = "CRITICAL" THEN <<>>
    ELSE get_courses_by_semester(catalog, current_sem)

\* the list copied back to front
backlog_courses_reversed(backlog_list) ==
    [i \in 1..Len(backlog_list) |-> backlog_list[Len(backlog_list) + 1 - i]]

\* lines 44-47: each element of the verdict's list appended in turn
RECURSIVE backlog_courses_of(_)
backlog_courses_of(backlog_list) ==
    IF backlog_list = <<>> THEN <<>>
    ELSE Append(backlog_courses_of(SubSeq(backlog_list, 1, Len(backlog_list) - 1)),
                backlog_list[Len(backlog_list)])

\* the next semester's courses offered whether or not can_advance
advance_courses_always(catalog, current_sem, can_advance) ==
    get_courses_by_semester(catalog, current_sem + 1)

\* lines 50-52
advance_courses_of(catalog, current_sem, can_advance) ==
    IF can_advance THEN get_courses_by_semester(catalog, current_sem + 1)
    ELSE <<>>

RECURSIVE SumCredits(_)
SumCredits(course_list) ==
    IF course_list = <<>> THEN 0
    ELSE course_list[1].credits + SumCredits(Tail(course_list))

\* the credits of all three lists added up
total_credits_all_buckets(current_courses, backlog_courses, advance_courses) ==
    SumCredits(current_courses) + SumCredits(backlog_courses)
        + SumCredits(advance_courses)

\* line 69: of the three lists, the sum runs over current_courses
total_credits_of(current_courses, backlog_courses, advance_courses) ==
    SumCredits(current_courses)

\* lines 16-75
recommend_courses(catalog, student_id, eligibility) ==
    LET current_sem == eligibility.current_semester
        can_advance == eligibility.can_advance
        risk_level == eligibility.risk_level
        backlog_list == eligibility.backlog_courses
        current_courses == current_courses_of(catalog, current_sem, risk_level)
        backlog_courses == backlog_courses_of(backlog_list)
        advance_courses == advance_courses_of(catalog, current_sem, can_advance)
    IN  [kind |-> "recommendation",
         student_id |-> student_id,
         semester |-> current_sem,
         courses |->
            [current |-> [i \in 1..Len(current_courses) |->
                             course_to_dict(current_courses[i])],
             backlogs |-> backlog_courses,
             advance |-> [i \in 1..Len(advance_courses) |->
                             course_to_dict(advance_courses[i])]],
         total_credits |->
            total_credits_of(current_courses, backlog_courses, advance_courses),
         summary |->
            [risk_level |-> risk_level,
             can_advance |-> can_advance,
             message |-> generate_message(risk_level, Len(backlog_courses))]]

SelectorStudents ==
    [id : {1}, current_semester : {4, 5, 6}, cgpa : StudentCgpas,
     total_earned_credits : {108},
     not_promoted_count : 0..MaxStudentNotPromoted]

\* first attempts at the courses of semesters 4 and 5
SelectorRecords == {r \in StudentRecords : r.attempt_number = 1}

RECURSIVE SeqsUpTo(_, _)
SeqsUpTo(S, n) ==
    IF n = 0 THEN {<<>>}
    ELSE LET shorter == SeqsUpTo(S, n - 1)
         IN  shorter \cup {Append(q, x) : q \in shorter, x \in S}

InitSelector ==
    /\ RulesIdle
    /\ student \in SelectorStudents
    /\ courses = SelectorCatalog
    /\ records \in SeqsUpTo(SelectorRecords, MaxSelectorRecords)
    /\ extraction = NoExtraction
    /\ verdict = NoVerdict
    /\ RagIdle

\* graph.py line 141: the verdict just obtained is handed to the selector
RecommendCourses ==
    /\ verdict.kind = "verdict"
    /\ recommendation = NoRecommendation
    /\ recommendation' = recommend_courses(courses, student.id, verdict)
    /\ UNCHANGED <<ruleVars, dbVars, extraction, verdict, storeVars, retrieval,
                 llm_calls, apiVars>>

NextSelector == AnalyzeEligibility \/ RecommendCourses

SpecSelector == InitSelector /\ [][NextSelector]_vars

---------------------------------------------------------------------------
(* The vector store (backend/services/vector_store.py) and the retriever   *)
(* (backend/services/retriever.py).  A vector has two integer components;  *)
(* a score is the squared L2 distance that IndexFlatL2 reports.  Positions *)
(* of the index count from 1 (faiss counts from 0).                        *)

MaxChunks == 3

\* top_k runs from 1 to beyond the size of the corpus
TopKs == 1..(MaxChunks + 1)

ChunkTexts ==
    {"promotion", "advancement", "grading",
     "A student shall earn 16 credits to be promoted."}

QueryTexts == {"promotion requirements", "attendance"}

\* retriever.py lines 72 and 78: the queries of retrieve_promotion_rules and
\* retrieve_advancement_rules
PromotionRulesQuery == "promotion requirements earned credits semester"
AdvancementRulesQuery == "advancement eligibility CGPA third year final year"
RuleQueries == {PromotionRulesQuery, AdvancementRulesQuery}

\* embedding_service.embed_text / embed_texts: the vector of each text
Embedding ==
    [t \in ChunkTexts \cup QueryTexts \cup RuleQueries |->
        CASE t = "promotion" -> <<0, 0>>
          [] t = "advancement" -> <<1, 0>>
          [] t = "grading" -> <<0, 2>>
          [] t = "promotion requirements" -> <<0, 1>>
          [] t = "attendance" -> <<2, 0>>
          [] t = "A student shall earn 16 credits to be promoted." -> <<2, 2>>
          [] t = PromotionRulesQuery -> <<0, 1>>
          [] t = AdvancementRulesQuery -> <<1, 1>>]

\* build_vector_index.py lines 51-58: the metadata of a chunk
ChunkMetadatas ==
    [source : {"ordinances.pdf"}, document_type : {"ordinance"}]

\* {}
EmptyDict == [key \in {} |-> ""]

\* metadatas=None
NoMetadatas == [none |-> TRUE]

\* index.ntotal, 0 without an index
Ntotal(ix) == IF ix = NoIndex THEN 0 ELSE Len(ix.vectors)

\* lines 36-60: the store after add_documents(texts, metadata_arg)
add_documents(ix, docs, metas, texts, metadata_arg) ==
    IF texts = <<>>
    THEN [index |-> ix, documents |-> docs, metadatas |-> metas]
    ELSE LET embeddings == [i \in 1..Len(texts) |-> Embedding[texts[i]]]
             created == IF ix = NoIndex THEN [vectors |-> <<>>] ELSE ix
         IN  [index |-> [vectors |-> created.vectors \o embeddings],
              documents |-> docs \o texts,
              metadatas |->
                  IF metadata_arg # NoMetadatas /\ metadata_arg.list # <<>>
                  THEN metas \o metadata_arg.list
                  ELSE metas \o [i \in 1..Len(texts) |-> EmptyDict]]

\* the squared L2 distance of two vectors
L2(u, v) == (u[1] - v[1]) * (u[1] - v[1]) + (u[2] - v[2]) * (u[2] - v[2])

\* the k positions farthest from the query
NeighboursFarthest(ix, q, k) ==
    { h \in [1..k -> 1..Ntotal(ix)] :
        /\ \A i, j \in 1..k : i # j => h[i] # h[j]
        /\ \A i \in 1..(k - 1) : L2(q, ix.vectors[h[i]]) >= L2(q, ix.vectors[h[i + 1]])
        /\ \A p \in 1..Ntotal(ix) :
               (\A i \in 1..k : h[i] # p) =>
                   \A i \in 1..k : L2(q, ix.vectors[p]) <= L2(q, ix.vectors[h[i]]) }

\* line 74, index.search(query_array, k): the k positions nearest to the
\* query by ascending distance; positions at equal distance come in an
\* order the index does not specify
Neighbours(ix, q, k) ==
    { h \in [1..k -> 1..Ntotal(ix)] :
        /\ \A i, j \in 1..k : i # j => h[i] # h[j]
        /\ \A i \in 1..(k - 1) : L2(q, ix.vectors[h[i]]) <= L2(q, ix.vectors[h[i + 1]])
        /\ \A p \in 1..Ntotal(ix) :
               (\A i \in 1..k : h[i] # p) =>
                   \A i \in 1..k : L2(q, ix.vectors[p]) >= L2(q, ix.vectors[h[i]]) }

\* lines 76-86: a position beyond documents is skipped; one within documents
\* and beyond metadatas raises IndexError
RECURSIVE FormatResults(_, _, _, _, _)
FormatResults(ix, docs, metas, q, hits) ==
    IF hits = <<>> THEN [raised |-> FALSE, results |-> <<>>]
    ELSE LET front == FormatResults(ix, docs, metas, q, SubSeq(hits, 1, Len(hits) - 1))
             idx == hits[Len(hits)]
         IN  IF front.raised THEN front
             ELSE IF idx <= Len(docs)
             THEN IF idx <= Len(metas)
                  THEN [raised |-> FALSE,
                        results |-> Append(front.results,
                                      [text |-> docs[idx],
                                       metadata |-> metas[idx],
                                       score |-> L2(q, ix.vectors[idx])])]
                  ELSE [raised |-> TRUE, results |-> <<>>]
             ELSE front

\* the query embedded before the store is looked at
similarity_search_embed_first(ix, docs, metas, query, embed_raises, hits) ==
    IF embed_raises
    THEN [outcome |-> "raised", embedded |-> TRUE, results |-> <<>>]
    ELSE IF ix = NoIndex \/ Ntotal(ix) = 0
    THEN [outcome |-> "returned", embedded |-> TRUE, results |-> <<>>]
    ELSE LET formatted == FormatResults(ix, docs, metas, Embedding[query], hits)
         IN  [outcome |-> IF formatted.raised THEN "raised" ELSE "returned",
              embedded |-> TRUE,
              results |-> formatted.results]

\* lines 62-86; embed_raises: the embedding call fails; hits: what
\* index.search gives for k = min(k, ntotal)
similarity_search(ix, docs, metas, query, embed_raises, hits) ==
    IF ix = NoIndex \/ Ntotal(ix) = 0
    THEN [outcome |-> "returned", embedded |-> FALSE, results |-> <<>>]
    ELSE IF embed_raises
    THEN [outcome |-> "raised", embedded |-> TRUE, results |-> <<>>]
    ELSE LET formatted == FormatResults(ix, docs, metas, Embedding[query], hits)
         IN  [outcome |-> IF formatted.raised THEN "raised" ELSE "returned",
              embedded |-> TRUE,
              results |-> formatted.results]

\* retriever.py lines 42-61: "[Source i]\n{text}" of each result, joined by
\* blank lines
RECURSIVE FormattedContext(_)
FormattedContext(results) ==
    IF results = <<>> THEN <<>>
    ELSE LET n == Len(results)
             part == <<"[Source ", n, "]\n", results[n].text>>
         IN  IF n = 1 THEN part
             ELSE FormattedContext(SubSeq(results, 1, n - 1)) \o <<"\n\n">> \o part

\* retriever.py lines 50-52: the source of each result at its first
\* appearance
RECURSIVE Sources(_)
Sources(results) ==
    IF results = <<>> THEN <<>>
    ELSE LET sources == Sources(SubSeq(results, 1, Len(results) - 1))
             metadata == results[Len(results)].metadata
             source_info == IF "source" \in DOMAIN metadata THEN metadata.source
                            ELSE "AMU Ordinances"
         IN  IF \E i \in 1..Len(sources) : sources[i] = source_info THEN sources
             ELSE Append(sources, source_info)

\* retriever.py lines 16-68, on the outcome of similarity_search
retrieve_context(query, top_k, search) ==
    IF search.outcome = "raised"
    THEN [outcome |-> "raised", query |-> query, top_k |-> top_k,
          embedded |-> search.embedded,
          context |-> <<>>, sources |-> <<>>, chunks |-> <<>>]
    ELSE IF search.results = <<>>
    THEN [outcome |-> "returned", query |-> query, top_k |-> top_k,
          embedded |-> search.embedded,
          context |-> <<"No relevant ordinance information found.">>,
          sources |-> <<>>, chunks |-> <<>>]
    ELSE [outcome |-> "returned", query |-> query, top_k |-> top_k,
          embedded |-> search.embedded,
          context |-> FormattedContext(search.results),
          sources |-> Sources(search.results),
          chunks |-> [i \in 1..Len(search.results) |->
                         [text |-> search.results[i].text,
                          metadata |-> search.results[i].metadata,
                          score |-> search.results[i].score]]]

\* the texts of one add_documents call: none, one or two
TextLists == SeqsUpTo(ChunkTexts, 2)

\* the metadatas argument of a call: absent, or one dict per text
MetadataArgs(texts) ==
    {NoMetadatas} \cup
    {[list |-> l] : l \in [1..Len(texts) -> ChunkMetadatas]}

InitRetrieval ==
    /\ RulesIdle
    /\ student = NoStudent
    /\ courses = FullCatalog
    /\ records = <<>>
    /\ extraction = NoExtraction
    /\ verdict = NoVerdict
    /\ RagIdle

\* build_vector_index.py line 113 and later rebuilds: the index is built and
\* extended before the store is queried
AddDocuments ==
    \E texts \in TextLists :
        /\ retrieval = NoRetrieval
        /\ Ntotal(index) + Len(texts) <= MaxChunks
        /\ \E metadata_arg \in MetadataArgs(texts) :
             LET store == add_documents(index, documents, metadatas, texts, metadata_arg)
             IN  /\ index' = store.index
                 /\ documents' = store.documents
                 /\ metadatas' = store.metadatas
        /\ UNCHANGED <<ruleVars, dbVars, extraction, verdict, recommendation, retrieval,
                       llm_calls, apiVars>>

\* one retrieve_context call on the store as built
RetrieveContext ==
    /\ retrieval = NoRetrieval
    /\ \E query \in QueryTexts, top_k \in TopKs, embed_raises \in BOOLEAN :
        LET k == IF top_k < Ntotal(index) THEN top_k ELSE Ntotal(index)
        IN  \E hits \in IF k = 0 THEN {<<>>} ELSE Neighbours(index, Embedding[query], k) :
                retrieval' =
                    retrieve_context(query, top_k,
                        similarity_search(index, documents, metadatas, query,
                                          embed_raises, hits))
    /\ UNCHANGED <<ruleVars, dbVars, extraction, verdict, recommendation, storeVars,
                 llm_calls, apiVars>>

NextRetrieval == AddDocuments \/ RetrieveContext

SpecRetrieval == InitRetrieval /\ [][NextRetrieval]_vars

---------------------------------------------------------------------------
(* Chat handling (backend/agents/graph.py).  A message is its text and the *)
(* keywords of _classify_intent that occur in its lower-cased text.        *)

\* verification_agent.py lines 11-43: the methods VerificationAgent defines
VerificationAgentMethods == {"__init__", "verify_student"}

EligibilityWords == {"eligib", "can i", "promotion", "advance", "backlog"}
CourseWords == {"course", "register", "recommend", "select"}
OrdinanceWords == {"rule", "ordinance", "regulation", "policy", "clause"}

Messages ==
    { [text |-> "Can I advance?", words |-> {"can i", "advance"}],
      [text |-> "Recommend a course", words |-> {"recommend", "course"}],
      [text |-> "Which clause covers promotion?", words |-> {"clause", "promotion"}],
      [text |-> "What does the ordinance say?", words |-> {"ordinance"}],
      [text |-> "Hello", words |-> {}],
      [text |-> "", words |-> {}] }

\* lines 81-92
classify_intent(message) ==
    IF message.words \cap EligibilityWords # {} THEN "eligibility"
    ELSE IF message.words \cap CourseWords # {} THEN "courses"
    ELSE IF message.words \cap OrdinanceWords # {} THEN "ordinance"
    ELSE "general"

\* what the services do during one chat: the eligibility analysis meets
\* analysis; the handler's own retrieval raises or gives a context with
\* sources; the handler's text-generation call raises or replies content
ChatEnvironments ==
    [analysis : Environments,
     retrieval_raises : BOOLEAN,
     context : {<<"No relevant ordinance information found.">>,
                <<"[Source ", 1, "]\n", "promotion">>},
     llm_raises : BOOLEAN,
     content : {"", "Yes."}]

ChatRaised(error) == [outcome |-> "raised", error |-> error]

ChatReturned(response_text, context, sources) ==
    [outcome |-> "returned", response |-> response_text,
     context |-> context, sources |-> sources]

ChatSources(env) ==
    IF env.context = <<"No relevant ordinance information found.">> THEN <<>>
    ELSE <<"AMU Ordinances">>

\* lines 94-133
handle_eligibility_query(env, stu, catalog, recs) ==
    LET eligibility == analyze_eligibility(env.analysis, stu, catalog, recs)
    IN  IF eligibility.kind = "raised" \/ env.retrieval_raises
        THEN ChatRaised("embedding")
        ELSE IF ~env.llm_raises
        THEN ChatReturned(env.content, eligibility, ChatSources(env))
        ELSE ChatReturned(<<"Based on your current status, you have ",
                            eligibility.total_earned_credits, " credits and CGPA ",
                            eligibility.cgpa, ". Check the eligibility page for details.">>,
                          eligibility, <<>>)

\* lines 135-165
handle_course_query(env, stu, catalog, recs) ==
    LET eligibility == analyze_eligibility(env.analysis, stu, catalog, recs)
    IN  IF eligibility.kind = "raised"
        THEN ChatRaised("embedding")
        ELSE LET selected == recommend_courses(catalog, stu.id, eligibility)
                 backlog_count == Len(selected.courses.backlogs)
                 advance_count == Len(selected.courses.advance)
             IN  ChatReturned(
                     <<"Based on your current status:\n\nCurrent Semester Courses: ",
                       Len(selected.courses.current), " available\n">> \o
                     (IF backlog_count > 0
                      THEN <<"Backlog Courses: ", backlog_count, " to clear\n">>
                      ELSE <<>>) \o
                     (IF advance_count > 0
                      THEN <<"Advancement Courses: ", advance_count, " available\n">>
                      ELSE <<>>) \o
                     <<"\nTotal Credits: ", selected.total_credits, "/40">>,
                     selected, <<>>)

\* lines 167-195
handle_ordinance_query(env) ==
    IF env.retrieval_raises THEN ChatRaised("embedding")
    ELSE IF ~env.llm_raises
    THEN ChatReturned(env.content, None, ChatSources(env))
    ELSE ChatReturned(env.context \o <<"...">>, None, ChatSources(env))

\* lines 197-221
handle_general_query(env) ==
    IF ~env.llm_raises THEN ChatReturned(env.content, None, <<>>)
    ELSE ChatReturned(<<"I'm here to help with course registration and AMU ordinances. Ask me about eligibility, courses, or registration rules!">>,
                      None, <<>>)

\* lines 46-79: line 58 calls verification_agent.get_student_by_id, and
\* the attribute lookup raises AttributeError when VerificationAgent has no
\* such method
handle_chat(env, stu, catalog, recs, student_id, message) ==
    IF "get_student_by_id" \notin VerificationAgentMethods
    THEN ChatRaised("AttributeError")
    ELSE IF stu = NoStudent \/ stu.id # student_id
    THEN ChatReturned(<<"Student not found. Please log in again.">>, None, <<>>)
    ELSE LET intent == classify_intent(message)
         IN  IF intent = "eligibility"
             THEN handle_eligibility_query(env, stu, catalog, recs)
             ELSE IF intent = "courses"
             THEN handle_course_query(env, stu, catalog, recs)
             ELSE IF intent = "ordinance"
             THEN handle_ordinance_query(env)
             ELSE handle_general_query(env)

ChatStudentIds == {1, 2}

InitChat ==
    /\ RulesIdle
    /\ student \in Students \cup {NoStudent}
    /\ courses \in Catalogs
    /\ records = <<>>
    /\ extraction = NoExtraction
    /\ verdict = NoVerdict
    /\ RagIdle

\* one handle_chat call; chat keeps the arguments with the outcome
HandleChat ==
    /\ chat = NoChat
    /\ \E student_id \in ChatStudentIds, message \in Messages, env \in ChatEnvironments :
           chat' = [student_id |-> student_id, message |-> message.text] @@
                   handle_chat(env, student, courses, records, student_id, message)
    /\ UNCHANGED <<ruleVars, dbVars, extraction, verdict, recommendation, storeVars,
                   retrieval, llm_calls, response, registrations, submission, disk>>

NextChat == HandleChat

SpecChat == InitChat /\ [][NextChat]_vars

---------------------------------------------------------------------------
(* GET /api/eligibility/{student_id} (backend/main.py, check_eligibility), *)
(* answering from the same tables as EligibilityAgent.analyze_eligibility. *)

MaxEndpointRecords == 2

\* main.py lines 99-108: one entry for every record with grade E or F whose
\* course is in table courses
RECURSIVE EndpointBacklogs(_, _)
EndpointBacklogs(catalog, recs) ==
    IF recs = <<>> THEN <<>>
    ELSE LET backlogs == EndpointBacklogs(catalog, SubSeq(recs, 1, Len(recs) - 1))
             r == recs[Len(recs)]
         IN  IF r.grade \in {"E", "F"} /\ r.course_id \in DOMAIN catalog
             THEN Append(backlogs,
                         [course_code |-> catalog[r.course_id].course_code,
                          course_name |-> catalog[r.course_id].course_name,
                          credits |-> catalog[r.course_id].credits])
             ELSE backlogs

\* main.py lines 80-136, for a student that exists; the promotion check of
\* lines 82-93 is made and its result is not returned
eligibility_response(stu, catalog, recs) ==
    LET risk == check_name_removal_risk(stu.not_promoted_count)
        risk_level == risk[1]
        backlogs == EndpointBacklogs(catalog, recs)
        has_backlogs == Len(backlogs) > 0
        adv == check_advance_eligibility(stu.current_semester, stu.cgpa, has_backlogs)
        can_advance == adv[1]
    IN  [kind |-> "ok",
         student_id |-> stu.id,
         current_semester |-> stu.current_semester,
         cgpa |-> stu.cgpa,
         total_earned_credits |-> stu.total_earned_credits,
         status |-> IF risk_level = "CRITICAL" THEN "BLOCKED" ELSE "ELIGIBLE",
         can_register |-> risk_level # "CRITICAL",
         can_advance |-> can_advance,
         has_backlogs |-> has_backlogs,
         backlog_count |-> Len(backlogs),
         allowed_registration_types |->
             (IF risk_level # "CRITICAL" THEN <<"CURRENT">> ELSE <<>>) \o
             (IF has_backlogs THEN <<"BACKLOG">> ELSE <<>>) \o
             (IF can_advance THEN <<"ADVANCE">> ELSE <<>>),
         risk_level |-> risk_level,
         backlog_courses |-> backlogs]

\* a missing student answered as a server error
check_eligibility_server_error(stu, catalog, recs) ==
    IF stu = NoStudent
    THEN [kind |-> "http_error", status_code |-> 500, detail |-> "Student not found"]
    ELSE eligibility_response(stu, catalog, recs)

\* main.py lines 74-136
check_eligibility(stu, catalog, recs) ==
    IF stu = NoStudent
    THEN [kind |-> "http_error", status_code |-> 404, detail |-> "Student not found"]
    ELSE eligibility_response(stu, catalog, recs)

EndpointStudents == {st \in Students : st.total_earned_credits = 108}

\* both attempts at course 1 and the first attempt at course 2
EndpointRecords ==
    {r \in StudentRecords : r.course_id = 1 \/ r.attempt_number = 1}

InitEndpoint ==
    /\ RulesIdle
    /\ student \in EndpointStudents \cup {NoStudent}
    /\ courses \in Catalogs
    /\ records \in IF student = NoStudent THEN {<<>>}
                   ELSE SeqsUpTo(EndpointRecords, MaxEndpointRecords)
    /\ extraction = NoExtraction
    /\ verdict = NoVerdict
    /\ RagIdle

\* one GET /api/eligibility request about the student
CheckEligibility ==
    /\ response = NoResponse
    /\ response' = check_eligibility(student, courses, records)
    /\ UNCHANGED <<ruleVars, dbVars, extraction, verdict, recommendation, storeVars,
                   retrieval, llm_calls, chat, registrations, submission, disk>>

NextEndpoint == AnalyzeEligibility \/ CheckEligibility

SpecEndpoint == InitEndpoint /\ [][NextEndpoint]_vars

---------------------------------------------------------------------------
(* analyze_eligibility on the store as built: the context that             *)
(* _get_rag_recommendations reads is what the retriever makes of the       *)
(* chunks of the store (eligibility_agent.py lines 171-213,                *)
(* retriever.py lines 16-80)                                               *)

\* len(context) of a returned retrieval: the sentinel, or the parts
\* "[Source i]\n{text}" joined by "\n\n"
RECURSIVE PartsLength(_)
PartsLength(chunks) ==
    IF chunks = <<>> THEN 0
    ELSE LET n == Len(chunks)
             part == Len("[Source ") + 1 + Len("]\n") + Len(chunks[n].text)
         IN  IF n = 1 THEN part
             ELSE PartsLength(SubSeq(chunks, 1, n - 1)) + Len("\n\n") + part

context_length(retrieved) ==
    IF retrieved.chunks = <<>> THEN Len(retrieved.context[1])
    ELSE PartsLength(retrieved.chunks)

\* eligibility_agent.py lines 174-177: which retrieval, if any, the
\* recommendations of the student call for
rules_query(stu, catalog, recs) ==
    IF stu = NoStudent THEN [retrieves |-> FALSE, query |-> ""]
    ELSE LET risk == check_name_removal_risk(stu.not_promoted_count)
             has_backlogs == Len(get_backlogs(catalog, recs)) > 0
             adv == check_advance_eligibility(stu.current_semester, stu.cgpa, has_backlogs)
         IN  IF risk[1] = "CRITICAL"
             THEN [retrieves |-> TRUE, query |-> PromotionRulesQuery]
             ELSE IF adv[1]
             THEN [retrieves |-> TRUE, query |-> AdvancementRulesQuery]
             ELSE [retrieves |-> FALSE, query |-> ""]

\* retriever.py lines 70-80: retrieve_context(query, top_k=2) on the store;
\* the embedding call may fail, and the index may order equal distances
\* either way
RuleRetrievals(ix, docs, metas, query) ==
    LET k == IF 2 < Ntotal(ix) THEN 2 ELSE Ntotal(ix)
    IN  { retrieve_context(query, 2,
              similarity_search(ix, docs, metas, query, embed_raises, hits)) :
            embed_raises \in BOOLEAN,
            hits \in IF k = 0 THEN {<<>>} ELSE Neighbours(ix, Embedding[query], k) }

\* what the services do during a call that retrieved this context
StoreEnvironments(retrieved) ==
    { e \in [retrieval_raises : {retrieved.outcome = "raised"},
             context_len : {IF retrieved.outcome = "raised" THEN 40
                            ELSE context_length(retrieved)},
             llm_raises : BOOLEAN, reply : LlmReplies] :
        /\ (e.retrieval_raises \/ e.context_len < 50) => ~e.llm_raises
        /\ (e.retrieval_raises \/ e.context_len < 50 \/ e.llm_raises) => e.reply = <<"">> }

\* the services of a call that retrieves nothing
NoRetrievalEnvironment ==
    [retrieval_raises |-> FALSE, context_len |-> 40, llm_raises |-> FALSE,
     reply |-> <<"">>]

\* students in and out of the critical risk level, below and at the cgpa of
\* advancement, in a semester that allows it and in one that does not
RagStudents ==
    {st \in Students :
        /\ st.current_semester \in {4, 5}
        /\ st.total_earned_credits = 108
        /\ st.not_promoted_count \in {0, MAX_NOT_PROMOTED_COUNT}}

\* no record, or one failed attempt
RagRecords ==
    {<<>>} \cup
    {<<r>> : r \in {q \in StudentRecords :
                      q.course_id = 1 /\ q.attempt_number = 1 /\ q.grade = "E"
                      /\ q.status = "FAILED"}}

InitRag ==
    /\ RulesIdle
    /\ student \in RagStudents \cup {NoStudent}
    /\ courses = FullCatalog
    /\ records \in IF student = NoStudent THEN {<<>>} ELSE RagRecords
    /\ extraction = NoExtraction
    /\ verdict = NoVerdict
    /\ RagIdle

\* one analyze_eligibility call on the store as it is; retrieval keeps what
\* the retriever returned to it
AnalyzeOnStore ==
    /\ verdict = NoVerdict
    /\ LET rules == rules_query(student, courses, records)
       IN  IF rules.retrieves
           THEN \E retrieved \in RuleRetrievals(index, documents, metadatas, rules.query) :
                  \E env \in StoreEnvironments(retrieved) :
                     /\ verdict' = analyze_eligibility(env, student, courses, records)
                     /\ llm_calls' = IF llm_invoked_by(env, student, courses, records)
                                     THEN 1 ELSE 0
                     /\ retrieval' = retrieved
           ELSE /\ verdict' = analyze_eligibility(NoRetrievalEnvironment, student,
                                                  courses, records)
                /\ llm_calls' = IF llm_invoked_by(NoRetrievalEnvironment, student,
                                                  courses, records)
                                THEN 1 ELSE 0
                /\ retrieval' = retrieval
    /\ UNCHANGED <<ruleVars, dbVars, extraction, recommendation, storeVars, apiVars>>

NextRag == AddDocuments \/ AnalyzeOnStore

SpecRag == InitRag /\ [][NextRag]_vars

---------------------------------------------------------------------------
(* The vector store as an object with a directory on disk:                 *)
(* VectorStore.add_documents, save and load                                *)
(* (backend/services/vector_store.py)                                      *)

\* lines 88-99: the index file is written only if there is an index, the
\* metadata file always
save(files, ix, docs, metas) ==
    [index_file |-> IF ix # NoIndex THEN [index |-> ix] ELSE files.index_file,
     metadata_file |-> [documents |-> docs, metadatas |-> metas]]

\* lines 101-112: each file replaces its part of the store if it exists
load(files, ix, docs, metas) ==
    [index |-> IF files.index_file # NoFile THEN files.index_file.index ELSE ix,
     documents |-> IF files.metadata_file # NoFile
                   THEN files.metadata_file.documents ELSE docs,
     metadatas |-> IF files.metadata_file # NoFile
                   THEN files.metadata_file.metadatas ELSE metas]

\* the texts of an add_documents call on the store object
StoreTextLists == SeqsUpTo({"promotion", "advancement"}, 2)

\* the metadatas argument of such a call: absent, or a list of dicts; the
\* method takes a list of any length
StoreMetadataArgs ==
    {NoMetadatas} \cup {[list |-> l] : l \in SeqsUpTo(ChunkMetadatas, 2)}

InitStore ==
    /\ RulesIdle
    /\ student = NoStudent
    /\ courses = FullCatalog
    /\ records = <<>>
    /\ extraction = NoExtraction
    /\ verdict = NoVerdict
    /\ RagIdle

\* one add_documents call
StoreAddDocuments ==
    /\ \E texts \in StoreTextLists, metadata_arg \in StoreMetadataArgs :
         LET store == add_documents(index, documents, metadatas, texts, metadata_arg)
         IN  /\ Ntotal(store.index) <= MaxChunks
             /\ Len(store.metadatas) <= MaxChunks
             /\ index' = store.index
             /\ documents' = store.documents
             /\ metadatas' = store.metadatas
    /\ UNCHANGED <<ruleVars, dbVars, extraction, verdict, recommendation, retrieval,
                   llm_calls, response, chat, registrations, submission, disk>>

\* one save call
StoreSave ==
    /\ disk' = save(disk, index, documents, metadatas)
    /\ UNCHANGED <<ruleVars, dbVars, extraction, verdict, recommendation, storeVars,
                   retrieval, llm_calls, response, chat, registrations, submission>>

\* one load call
StoreLoad ==
    /\ LET store == load(disk, index, documents, metadatas)
       IN  /\ index' = store.index
           /\ documents' = store.documents
           /\ metadatas' = store.metadatas
    /\ UNCHANGED <<ruleVars, dbVars, extraction, verdict, recommendation, retrieval,
                   llm_calls, response, chat, registrations, submission, disk>>

NextStore == StoreAddDocuments \/ StoreSave \/ StoreLoad

SpecStore == InitStore /\ [][NextStore]_vars

---------------------------------------------------------------------------
(* Registration submission: RegistrationAgent.submit_registration          *)
(* (backend/agents/registration_agent.py) and POST /api/registration/submit *)
(* (backend/main.py).  Both insert into table registrations.               *)

MaxRegistrations == 3

\* business_rules.py line 47
MAX_CREDITS_PER_SEMESTER == 40

\* table courses: the credits make one pair of courses exceed the limit and
\* one pair meet it
RegistrationCatalog ==
    [c \in 1..3 |->
        [id |-> c,
         course_code |-> <<"C", c>>,
         course_name |-> <<"Course ", c>>,
         credits |-> <<20, 16, 24>>[c],
         semester |-> 5]]

\* the one row of table students
RegistrationStudent ==
    [id |-> 1, current_semester |-> 5, cgpa |-> 750,
     total_earned_credits |-> 108, not_promoted_count |-> 0]

\* schemas.py lines 32-35
RegistrationModes == {"a", "b", "c"}

RECURSIVE SumSeq(_)
SumSeq(numbers) ==
    IF numbers = <<>> THEN 0 ELSE numbers[1] + SumSeq(Tail(numbers))

\* business_rules.py lines 300-312
validate_credit_limit(selected_course_credits) ==
    LET total_credits == SumSeq(selected_course_credits)
    IN  IF total_credits > MAX_CREDITS_PER_SEMESTER
        THEN <<FALSE, <<"Total credits (", total_credits,
                        ") exceed maximum limit of ", MAX_CREDITS_PER_SEMESTER>> >>
        ELSE <<TRUE, <<"Valid: ", total_credits, "/", MAX_CREDITS_PER_SEMESTER,
                       " credits">> >>

\* db.query(Course).filter(Course.id.in_(course_ids)).all(): each row once,
\* in the order of the primary key
courses_in(catalog, course_ids) ==
    LET ids == IdOrder({course_ids[i] : i \in 1..Len(course_ids)} \cap DOMAIN catalog)
    IN  [i \in 1..Len(ids) |-> catalog[ids[i]]]

\* the rows one submission adds, their ids following those of the table
new_registrations(regs, stu, course_ids, mode) ==
    [i \in 1..Len(course_ids) |->
        [id |-> Len(regs) + i,
         student_id |-> stu.id,
         course_id |-> course_ids[i],
         semester |-> stu.current_semester,
         registration_type |-> "CURRENT",
         registration_mode |-> mode,
         status |-> "CONFIRMED"]]

\* the database fails at the db_fails_at-th flush, or at the commit when
\* db_fails_at is one more than the number of rows; 0: it does not fail
DbFails(course_ids, db_fails_at) ==
    db_fails_at >= 1 /\ db_fails_at <= Len(course_ids) + 1

\* the rows flushed before the failure stay in the table
insert_registrations_no_rollback(regs, stu, course_ids, mode, db_fails_at) ==
    LET rows == new_registrations(regs, stu, course_ids, mode)
    IN  IF DbFails(course_ids, db_fails_at)
        THEN [failed |-> TRUE,
              registrations |-> regs \o SubSeq(rows, 1, db_fails_at - 1),
              registration_ids |-> <<>>]
        ELSE [failed |-> FALSE,
              registrations |-> regs \o rows,
              registration_ids |-> [i \in 1..Len(rows) |-> rows[i].id]]

\* registration_agent.py lines 76-92 and 104-110: add and flush row by row,
\* commit, and roll the transaction back on any exception
insert_registrations(regs, stu, course_ids, mode, db_fails_at) ==
    LET rows == new_registrations(regs, stu, course_ids, mode)
    IN  IF DbFails(course_ids, db_fails_at)
        THEN [failed |-> TRUE, registrations |-> regs, registration_ids |-> <<>>]
        ELSE [failed |-> FALSE,
              registrations |-> regs \o rows,
              registration_ids |-> [i \in 1..Len(rows) |-> rows[i].id]]

\* registration_agent.py lines 20-110: the table after the call and the
\* dict returned
submit_registration(catalog, stu, regs, student_id, course_ids, mode, db_fails_at) ==
    IF stu = NoStudent \/ stu.id # student_id
    THEN [registrations |-> regs,
          result |-> [success |-> FALSE, message |-> <<"Student not found">>,
                      errors |-> <<"Invalid student ID">>]]
    ELSE LET found == courses_in(catalog, course_ids)
             course_credits == [i \in 1..Len(found) |-> found[i].credits]
             valid == validate_credit_limit(course_credits)
         IN  IF Len(found) # Len(course_ids)
             THEN [registrations |-> regs,
                   result |-> [success |-> FALSE, message |-> <<"Invalid course IDs">>,
                               errors |-> <<"One or more courses not found">>]]
             ELSE IF ~valid[1]
             THEN [registrations |-> regs,
                   result |-> [success |-> FALSE, message |-> valid[2],
                               errors |-> <<"Credit limit exceeded">>]]
             ELSE IF mode \notin RegistrationModes
             THEN [registrations |-> regs,
                   result |-> [success |-> FALSE,
                               message |-> <<"Invalid registration mode">>,
                               errors |-> <<"Mode must be 'a', 'b', or 'c'">>]]
             ELSE LET inserted == insert_registrations(regs, stu, course_ids,
                                                       mode, db_fails_at)
                  IN  IF inserted.failed
                      THEN [registrations |-> inserted.registrations,
                            result |-> [success |-> FALSE,
                                        message |-> <<"Registration failed">>,
                                        errors |-> <<"database error">>]]
                      ELSE [registrations |-> inserted.registrations,
                            result |-> [success |-> TRUE,
                                        message |-> <<"Successfully registered for ",
                                                      Len(course_ids), " courses">>,
                                        registration_ids |-> inserted.registration_ids,
                                        total_credits |-> SumSeq(course_credits),
                                        errors |-> <<>>]]

\* main.py lines 169-203: the credits of the courses found are summed, and
\* one row is inserted for every requested id; an exception of the database
\* leaves the handler, and the session is closed without a commit
submit_registration_endpoint(catalog, stu, regs, student_id, course_ids, mode, db_fails_at) ==
    IF stu = NoStudent \/ stu.id # student_id
    THEN [registrations |-> regs,
          result |-> [kind |-> "http_error", status_code |-> 404,
                      detail |-> "Student not found"]]
    ELSE LET found == courses_in(catalog, course_ids)
             total_credits == SumSeq([i \in 1..Len(found) |-> found[i].credits])
             rows == new_registrations(regs, stu, course_ids, mode)
         IN  IF total_credits > 40
             THEN [registrations |-> regs,
                   result |-> [kind |-> "http_error", status_code |-> 400,
                               detail |-> "Credit limit exceeded"]]
             ELSE IF DbFails(course_ids, db_fails_at)
             THEN [registrations |-> regs, result |-> [kind |-> "raised"]]
             ELSE [registrations |-> regs \o rows,
                   result |-> [kind |-> "ok", success |-> TRUE,
                               message |-> <<"Registered for ", Len(course_ids),
                                             " courses">>,
                               registration_ids |-> [i \in 1..Len(rows) |-> rows[i].id],
                               total_credits |-> total_credits]]

\* the course_ids of a request: none, one or two ids, known or unknown,
\* repeated, within and above the credit limit
CourseIdLists ==
    {<<>>, <<1>>, <<2>>, <<3>>, <<4>>, <<1, 2>>, <<2, 3>>, <<1, 3>>, <<1, 1>>, <<1, 4>>}

\* the positions at which the database may fail
DbFailures == 0..3

\* the registration_mode of a call of the agent, one of them not a mode
AgentModes == {"a", "x"}

SubmissionStudentIds == {1, 2}

InitRegistration ==
    /\ RulesIdle
    /\ student = RegistrationStudent
    /\ courses = RegistrationCatalog
    /\ records = <<>>
    /\ extraction = NoExtraction
    /\ verdict = NoVerdict
    /\ RagIdle

\* one RegistrationAgent.submit_registration call; submission keeps the
\* arguments, the table as it was and the dict returned
SubmitByAgent ==
    /\ \E student_id \in SubmissionStudentIds, course_ids \in CourseIdLists,
          registration_mode \in AgentModes, db_fails_at \in DbFailures :
           /\ Len(registrations) + Len(course_ids) <= MaxRegistrations
           /\ LET done == submit_registration(courses, student, registrations,
                                              student_id, course_ids,
                                              registration_mode, db_fails_at)
              IN  /\ registrations' = done.registrations
                  /\ submission' = [via |-> "agent", student_id |-> student_id,
                                    course_ids |-> course_ids,
                                    registration_mode |-> registration_mode,
                                    before |-> registrations,
                                    result |-> done.result]
    /\ UNCHANGED <<ruleVars, dbVars, extraction, verdict, recommendation, storeVars,
                   retrieval, llm_calls, response, chat, disk>>

\* one POST /api/registration/submit request that passes the validation of
\* RegistrationCreate (schemas.py lines 189-193): course_ids not empty, the
\* mode one of a, b, c
SubmitByEndpoint ==
    /\ \E student_id \in SubmissionStudentIds, course_ids \in CourseIdLists \ {<<>>},
          registration_mode \in {"a"}, db_fails_at \in DbFailures :
           /\ Len(registrations) + Len(course_ids) <= MaxRegistrations
           /\ LET done == submit_registration_endpoint(courses, student, registrations,
                                                       student_id, course_ids,
                                                       registration_mode, db_fails_at)
              IN  /\ registrations' = done.registrations
                  /\ submission' = [via |-> "endpoint", student_id |-> student_id,
                                    course_ids |-> course_ids,
                                    registration_mode |-> registration_mode,
                                    before |-> registrations,
                                    result |-> done.result]
    /\ UNCHANGED <<ruleVars, dbVars, extraction, verdict, recommendation, storeVars,
                   retrieval, llm_calls, response, chat, disk>>

NextRegistration == SubmitByAgent \/ SubmitByEndpoint

SpecRegistration == InitRegistration /\ [][NextRegistration]_vars

---------------------------------------------------------------------------
(* Properties of the eligibility analysis (checked under Spec) *)

Elems(seq) == {seq[i] : i \in 1..Len(seq)}

NoDuplicates(seq) == \A i, j \in 1..Len(seq) : seq[i] = seq[j] => i = j

\* C1: a student with not_promoted_count >= 3 gets risk_level CRITICAL and an
\* allowed_registration_types without CURRENT, whatever the semester, the
\* credits, the cgpa and the academic records are.
C1_CriticalExcludesCurrent ==
    (verdict.kind = "verdict" /\ student.not_promoted_count >= 3) =>
        /\ verdict.risk_level = "CRITICAL"
        /\ "CURRENT" \notin Elems(verdict.allowed_registration_types)

\* a III-year student with cgpa 7.5, three non-promotions and a backlog: only
\* BACKLOG is allowed
C1_Witness ==
    /\ verdict.kind = "verdict"
    /\ student.not_promoted_count = 3
    /\ student.current_semester = 6
    /\ student.cgpa = 750
    /\ verdict.allowed_registration_types = <<"BACKLOG">>

\* C2: allowed_registration_types holds CURRENT iff risk_level is not CRITICAL,
\* BACKLOG iff the backlog list is non-empty, ADVANCE iff the advancement check
\* passed, and nothing else.
C2_AllowedTypesExact ==
    verdict.kind = "verdict" =>
        LET allowed == verdict.allowed_registration_types
            has == verdict.backlog_courses # <<>>
            passed == check_advance_eligibility(student.current_semester,
                                                student.cgpa, has)[1]
        IN  /\ ("CURRENT" \in Elems(allowed)) = (verdict.risk_level # "CRITICAL")
            /\ ("BACKLOG" \in Elems(allowed)) = has
            /\ ("ADVANCE" \in Elems(allowed)) = passed
            /\ verdict.can_advance = passed
            /\ Elems(allowed) \subseteq {"CURRENT", "BACKLOG", "ADVANCE"}
            /\ NoDuplicates(allowed)

\* a student in good enough standing with one backlog: CURRENT and BACKLOG
C2_Witness ==
    /\ verdict.kind = "verdict"
    /\ verdict.risk_level = "HIGH"
    /\ verdict.backlog_count = 1
    /\ verdict.allowed_registration_types = <<"CURRENT", "BACKLOG">>

---------------------------------------------------------------------------
(* Properties of the backlog extraction (checked under SpecBacklog) *)

\* the extraction was made on the records as they are
Fresh == extraction.fn # "none" /\ extraction.at = Len(records)

BacklogIds(result) == {result[i].course_id : i \in 1..Len(result)}

CoursesIn(recs) == {recs[i].course_id : i \in 1..Len(recs)}

\* the positions in recs of the records of course c with the maximum
\* attempt_number
LatestPositions(recs, c) ==
    { i \in 1..Len(recs) :
        /\ recs[i].course_id = c
        /\ \A j \in 1..Len(recs) :
               recs[j].course_id = c => recs[j].attempt_number <= recs[i].attempt_number }

HasOneLatest(recs, c) == Cardinality(LatestPositions(recs, c)) = 1

LatestRecord(recs, c) == recs[CHOOSE i \in LatestPositions(recs, c) : TRUE]

FailingLatest(recs, c) ==
    /\ LatestRecord(recs, c).grade \in {"E", "F"}
    /\ LatestRecord(recs, c).status # "PASSED"

\* the courses a function is claimed to decide: all for get_backlog_courses,
\* those of the catalog for _get_backlogs
Decides(fn, c) == fn = "_get_backlogs" => c \in DOMAIN courses

\* C3: either extraction reports a course iff the record with the maximum
\* attempt_number of that course has grade E or F and a status other than
\* PASSED.
C3_BacklogIffLatestFails ==
    Fresh =>
        \A c \in CoursesIn(records) :
            (HasOneLatest(records, c) /\ Decides(extraction.fn, c)) =>
                ((c \in BacklogIds(extraction.result)) = FailingLatest(records, c))

\* what holds of _get_backlogs alone
AgentBacklogIffLatestFails ==
    (Fresh /\ extraction.fn = "_get_backlogs") =>
        \A c \in CoursesIn(records) :
            (HasOneLatest(records, c) /\ c \in DOMAIN courses) =>
                ((c \in BacklogIds(extraction.result)) = FailingLatest(records, c))

\* the last record is a new attempt of course c, with a higher attempt_number
\* than every earlier one and status PASSED, inserted right after an
\* extraction that reported c
PassedRetakeOf(c) ==
    /\ Len(records) > 0
    /\ extraction.fn # "none"
    /\ extraction.at = Len(records) - 1
    /\ c \in BacklogIds(extraction.result)
    /\ LET new == records[Len(records)]
       IN  /\ new.course_id = c
           /\ new.status = "PASSED"
           /\ \A j \in 1..(Len(records) - 1) :
                  records[j].course_id = c =>
                      records[j].attempt_number < new.attempt_number

\* C4: after a PASSED attempt with a higher attempt_number is added for a
\* course that was a backlog, the next extraction (by the same function) omits
\* that course and reports every other course as before.
C4_PassedRetakeClearsBacklog ==
    [][ \A c \in CourseIds :
          (/\ PassedRetakeOf(c)
           /\ extraction'.fn = extraction.fn
           /\ extraction'.at = Len(records)
           /\ records' = records)
          => /\ c \notin BacklogIds(extraction'.result)
             /\ \A d \in CourseIds \ {c} :
                    (d \in BacklogIds(extraction'.result)) =
                    (d \in BacklogIds(extraction.result)) ]_vars

\* what holds of _get_backlogs alone
AgentPassedRetakeClearsBacklog ==
    [][ \A c \in CourseIds :
          (/\ PassedRetakeOf(c)
           /\ extraction.fn = "_get_backlogs"
           /\ extraction'.fn = extraction.fn
           /\ extraction'.at = Len(records)
           /\ records' = records)
          => /\ c \notin BacklogIds(extraction'.result)
             /\ \A d \in CourseIds \ {c} :
                    (d \in BacklogIds(extraction'.result)) =
                    (d \in BacklogIds(extraction.result)) ]_vars

\* two records of one course share its maximum attempt_number
TiedLatest(recs) ==
    \E c \in CoursesIn(recs) : Cardinality(LatestPositions(recs, c)) > 1

\* C5: on records with two records of the same course at the same maximum
\* attempt_number the extraction fails with a data-integrity error and returns
\* no backlog list.
C5_TieRaises ==
    (Fresh /\ TiedLatest(records)) => extraction.outcome = "raised"

---------------------------------------------------------------------------
(* Properties of the rule functions (checked under SpecRules) *)

PromotionReturned ==
    rule_call.fn = "check_promotion_eligibility" /\ rule_result # NoResult

RiskReturned ==
    rule_call.fn = "check_name_removal_risk" /\ rule_result # NoResult

AdvanceReturned ==
    rule_call.fn = "check_advance_eligibility" /\ rule_result # NoResult

\* credits recorded for semester k, a missing semester counting as 0
CreditsOf(m, k) == IF k \in DOMAIN m THEN m[k] ELSE 0

\* C6: at a checkpoint semester, promoted is true exactly when: semester 2 and
\* total >= 16; semester 4 and total >= 60 and semesters 1,2 sum to >= 36;
\* semester 6 and total >= 108 and semesters 1..4 sum to >= 80 (a missing
\* semester counting as 0).
C6_PromotionThresholds ==
    (PromotionReturned /\ rule_call.current_semester \in {2, 4, 6}) =>
        LET s == rule_call.current_semester
            t == rule_call.total_earned_credits
            m == rule_call.semester_wise_credits
            c12 == CreditsOf(m, 1) + CreditsOf(m, 2)
            c14 == c12 + CreditsOf(m, 3) + CreditsOf(m, 4)
        IN  rule_result[1] =
              (\/ s = 2 /\ t >= 16
               \/ s = 4 /\ t >= 60 /\ c12 >= 36
               \/ s = 6 /\ t >= 108 /\ c14 >= 80)

\* semester 6 promoted on exactly 108 credits with exactly 80 from semesters 1..4
C6_Witness ==
    /\ PromotionReturned
    /\ rule_call.current_semester = 6
    /\ rule_call.total_earned_credits = 108
    /\ DOMAIN rule_call.semester_wise_credits = 1..4
    /\ SumGet(rule_call.semester_wise_credits, 1, 4) = 80
    /\ rule_result[1] = TRUE

\* C7: at semester 4 or 6, a total below the threshold gives the reason
\* "Insufficient credits: <total>/<required>" even if the partial sum is short
\* too; the partial-sum reason is given only when the total passes.
C7_TotalReasonFirst ==
    (PromotionReturned /\ rule_call.current_semester \in {4, 6} /\ rule_result[1] = FALSE) =>
        LET s == rule_call.current_semester
            t == rule_call.total_earned_credits
            m == rule_call.semester_wise_credits
            req == IF s = 4 THEN 60 ELSE 108
            c12 == CreditsOf(m, 1) + CreditsOf(m, 2)
            c14 == c12 + CreditsOf(m, 3) + CreditsOf(m, 4)
        IN  /\ t < req => rule_result[2] = <<"Insufficient credits: ", t, "/", req>>
            /\ t >= req =>
                 rule_result[2] =
                   IF s = 4
                   THEN <<"Need 36 credits from first two semesters. Current: ", c12>>
                   ELSE <<"Need 80 credits from first four semesters. Current: ", c14>>

\* semester 4, total 55 and only 30 credits from semesters 1 and 2: both checks
\* fail and the total-credit reason is the one returned
C7_Witness ==
    /\ PromotionReturned
    /\ rule_call.current_semester = 4
    /\ rule_call.total_earned_credits = 55
    /\ rule_call.semester_wise_credits = (1 :> 15) @@ (2 :> 15)
    /\ rule_result = <<FALSE, <<"Insufficient credits: ", 55, "/", 60>> >>

\* C8 as stated: outside semesters 2, 4, 6 the check returns (true, "not applicable")
C8_Original ==
    (PromotionReturned /\ rule_call.current_semester \notin {2, 4, 6}) =>
        rule_result = <<TRUE, <<"not applicable">> >>

\* C8 amended: outside semesters 2, 4, 6 the check returns true with the fixed
\* reason "Promotion check only at even semesters", whatever the credits are.
C8_NotApplicable ==
    (PromotionReturned /\ rule_call.current_semester \notin {2, 4, 6}) =>
        rule_result = <<TRUE, <<"Promotion check only at even semesters">> >>

\* semester 8 with 15 credits and no per-semester credits at all
C8_Witness ==
    /\ PromotionReturned
    /\ rule_call.current_semester = 8
    /\ rule_call.total_earned_credits = 15
    /\ DOMAIN rule_call.semester_wise_credits = {}
    /\ rule_result[1] = TRUE

\* C9: count >= 3 gives CRITICAL/NAME_REMOVAL, 2 gives HIGH/WARNING, 1 gives
\* MEDIUM/CAUTION, 0 gives LOW/SAFE, and every integer gets one of the four.
C9_RiskMapping ==
    RiskReturned =>
        LET n == rule_call.not_promoted_count
            level == rule_result[1]
            action == rule_result[2]
        IN  /\ n >= 3 => (level = "CRITICAL" /\ action = "NAME_REMOVAL")
            /\ n = 2 => (level = "HIGH" /\ action = "WARNING")
            /\ n = 1 => (level = "MEDIUM" /\ action = "CAUTION")
            /\ n = 0 => (level = "LOW" /\ action = "SAFE")
            /\ <<level, action>> \in {<<"CRITICAL", "NAME_REMOVAL">>, <<"HIGH", "WARNING">>,
                                      <<"MEDIUM", "CAUTION">>, <<"LOW", "SAFE">>}

\* the threshold itself: a count of exactly 3 is CRITICAL
C9_Witness ==
    /\ RiskReturned
    /\ rule_call.not_promoted_count = 3
    /\ rule_result[1] = "CRITICAL"

\* C10: can_advance is true iff the semester is 5 or 6, cgpa >= 7.5 and there
\* are no backlogs.
C10_AdvanceIff ==
    AdvanceReturned =>
        (rule_result[1] =
            (/\ rule_call.current_semester \in {5, 6}
             /\ rule_call.cgpa >= 750
             /\ ~rule_call.has_backlogs))

\* a cgpa of exactly 7.5 in semester 6 without backlogs advances
C10_Witness ==
    /\ AdvanceReturned
    /\ rule_call.current_semester = 6
    /\ rule_call.cgpa = 750
    /\ ~rule_call.has_backlogs
    /\ rule_result[1] = TRUE

\* C11: a failed advancement check gives the reason of the first failing
\* condition in the order semester, cgpa, backlogs: the semester reason even
\* if cgpa and backlogs fail too, the cgpa reason in semester 5 or 6 even if
\* backlogs exist, and "Cannot advance with pending backlogs" only when
\* semester and cgpa both pass.
C11_AdvanceReasonOrder ==
    (AdvanceReturned /\ rule_result[1] = FALSE) =>
        LET s == rule_call.current_semester
            g == rule_call.cgpa
        IN  /\ s \notin {5, 6} =>
                 rule_result[2] = <<"Advancement only for III year students (Sem 5/6)">>
            /\ (s \in {5, 6} /\ g < 750) =>
                 rule_result[2] = <<"CGPA must be >= ", 750, ". Current: ", g>>
            /\ (rule_result[2] = <<"Cannot advance with pending backlogs">>) =
                 (s \in {5, 6} /\ g >= 750)

\* semester 5 with cgpa 7.49 and backlogs: two conditions fail and the cgpa
\* reason is the one returned
C11_Witness ==
    /\ AdvanceReturned
    /\ rule_call.current_semester = 5
    /\ rule_call.cgpa = 749
    /\ rule_call.has_backlogs
    /\ rule_result = <<FALSE, <<"CGPA must be >= ", 750, ". Current: ", 749>> >>

\* C12: in every verdict of analyze_eligibility the status is BLOCKED
\* exactly when risk_level is CRITICAL and ELIGIBLE otherwise, can_register
\* is true exactly when the status is ELIGIBLE, and a failed promotion,
\* backlogs or a cgpa below 7.5 leave the status as the risk level gives it.
C12_StatusFollowsRisk ==
    verdict.kind = "verdict" =>
        /\ verdict.status \in {"BLOCKED", "ELIGIBLE"}
        /\ (verdict.status = "BLOCKED") = (verdict.risk_level = "CRITICAL")
        /\ verdict.can_register = (verdict.status = "ELIGIBLE")
        /\ verdict.risk_level = check_name_removal_risk(student.not_promoted_count)[1]

\* a student who failed promotion, has a backlog and a cgpa of 7.49, and is
\* ELIGIBLE all the same
C12_Witness ==
    /\ verdict.kind = "verdict"
    /\ verdict.status = "ELIGIBLE"
    /\ verdict.can_register
    /\ verdict.risk_level = "HIGH"
    /\ verdict.promotion_status # None
    /\ ~verdict.promotion_status.can_promote
    /\ verdict.has_backlogs
    /\ verdict.cgpa = 749

\* C13: the warnings hold the risk message exactly when risk_level is not
\* LOW and the backlog-count message exactly when there are backlogs, the
\* risk message first, and nothing else; they are empty exactly for a
\* LOW-risk student without backlogs.
C13_WarningsExact ==
    verdict.kind = "verdict" =>
        LET w == verdict.warnings
            risky == verdict.risk_level # "LOW"
            owing == verdict.backlog_courses # <<>>
            risk_msg == check_name_removal_risk(student.not_promoted_count)[3]
            backlog_msg == <<"You have ", Len(verdict.backlog_courses),
                             " backlog course(s)">>
        IN  /\ Len(w) = (IF risky THEN 1 ELSE 0) + (IF owing THEN 1 ELSE 0)
            /\ risky => w[1] = risk_msg
            /\ owing => w[Len(w)] = backlog_msg
            /\ (w = <<>>) = (verdict.risk_level = "LOW" /\ ~verdict.has_backlogs)

\* both messages present, the risk message first
C13_Witness ==
    /\ verdict.kind = "verdict"
    /\ verdict.risk_level = "MEDIUM"
    /\ Len(verdict.backlog_courses) = 1
    /\ Len(verdict.warnings) = 2
    /\ verdict.warnings[2] = <<"You have ", 1, " backlog course(s)">>

---------------------------------------------------------------------------
(* Properties of the course recommendation (checked under SpecSelector) *)

Recommended == recommendation.kind = "recommendation"

\* the rows of table courses in one semester, as the selector returns them
CatalogDicts(semester) ==
    LET ids == IdOrder({c \in DOMAIN courses : courses[c].semester = semester})
    IN  [i \in 1..Len(ids) |->
            [course_id |-> ids[i],
             course_code |-> courses[ids[i]].course_code,
             course_name |-> courses[ids[i]].course_name,
             credits |-> courses[ids[i]].credits,
             semester |-> semester,
             is_theory |-> courses[ids[i]].is_theory,
             is_lab |-> courses[ids[i]].is_lab,
             is_elective |-> courses[ids[i]].is_elective]]

\* C14: recommend_courses returns an empty current bucket when the
\* verdict's risk_level is CRITICAL, and otherwise exactly the courses of
\* table courses whose semester is the student's current_semester.
C14_CurrentBucket ==
    Recommended =>
        recommendation.courses.current =
            IF verdict.risk_level = "CRITICAL" THEN <<>>
            ELSE CatalogDicts(verdict.current_semester)

\* a CRITICAL student in semester 5, where the catalog has two courses
C14_Witness ==
    /\ Recommended
    /\ verdict.risk_level = "CRITICAL"
    /\ verdict.current_semester = 5
    /\ recommendation.courses.current = <<>>

\* a student below CRITICAL who is offered both courses of semester 5
C14_WitnessOffered ==
    /\ Recommended
    /\ verdict.risk_level = "HIGH"
    /\ Len(recommendation.courses.current) = 2
    /\ recommendation.courses.current[2].course_id = 3

\* C15: the backlogs bucket is the verdict's backlog_courses list, the same
\* elements in the same order, at every risk level, CRITICAL included.
C15_BacklogsPassThrough ==
    Recommended => recommendation.courses.backlogs = verdict.backlog_courses

\* a CRITICAL student with two backlogs, both passed through in order
C15_Witness ==
    /\ Recommended
    /\ verdict.risk_level = "CRITICAL"
    /\ Len(verdict.backlog_courses) = 2
    /\ recommendation.courses.backlogs[1].course_id = 2
    /\ recommendation.courses.backlogs[2].course_id = 1

\* C16: the advance bucket is empty whenever can_advance is false, and when
\* can_advance is true it is exactly the courses of table courses whose
\* semester is current_semester + 1.
C16_AdvanceBucket ==
    Recommended =>
        recommendation.courses.advance =
            IF verdict.can_advance
            THEN CatalogDicts(verdict.current_semester + 1)
            ELSE <<>>

\* a semester-5 student who can advance is offered the semester-6 course
C16_Witness ==
    /\ Recommended
    /\ verdict.can_advance
    /\ verdict.current_semester = 5
    /\ Len(recommendation.courses.advance) = 1
    /\ recommendation.courses.advance[1].course_id = 4

\* C17: total_credits is the sum of the credits of the returned current
\* bucket; the backlog and advance buckets add nothing, and the total is 0
\* for every CRITICAL student.
C17_TotalCredits ==
    Recommended =>
        /\ recommendation.total_credits = SumCredits(recommendation.courses.current)
        /\ verdict.risk_level = "CRITICAL" => recommendation.total_credits = 0

\* a student with non-empty current and advance buckets whose total is the
\* six credits of the current bucket
C17_Witness ==
    /\ Recommended
    /\ verdict.current_semester = 5
    /\ recommendation.courses.advance # <<>>
    /\ recommendation.courses.current # <<>>
    /\ recommendation.total_credits = 6

\* a CRITICAL student with a backlog and a total of 0
C17_WitnessCritical ==
    /\ Recommended
    /\ verdict.risk_level = "CRITICAL"
    /\ recommendation.courses.backlogs # <<>>
    /\ recommendation.total_credits = 0

---------------------------------------------------------------------------
(* Properties of the retrieval (checked under SpecRetrieval) *)

Retrieved == retrieval.outcome # "none"

\* C18: when the vector store holds no vectors (no index, or ntotal = 0),
\* retrieve_context returns for every query and top_k the "no information
\* found" sentinel context with empty sources and empty chunks, without
\* raising and without calling the embedding service.
C18_EmptyStoreSentinel ==
    (Retrieved /\ Ntotal(index) = 0) =>
        /\ retrieval.outcome = "returned"
        /\ retrieval.context = <<"No relevant ordinance information found.">>
        /\ retrieval.sources = <<>>
        /\ retrieval.chunks = <<>>
        /\ ~retrieval.embedded

\* a retrieval of four chunks from the store without an index
C18_Witness ==
    /\ index = NoIndex
    /\ retrieval.outcome = "returned"
    /\ retrieval.top_k = 4
    /\ retrieval.chunks = <<>>

\* a corpus of N chunks: N vectors, N texts and N metadata entries
CorpusSize == Ntotal(index)

IsCorpus == Len(documents) = CorpusSize /\ Len(metadatas) = CorpusSize

\* the distance of the text at a position of the corpus from the query
DistanceAt(p) == L2(Embedding[retrieval.query], Embedding[documents[p]])

\* C19: on a non-empty corpus of N chunks and top_k >= 1, a retrieval that
\* returns gives exactly min(top_k, N) chunks, the ones nearest to the query
\* embedding by L2 distance, in ascending order of distance (score).
C19_NearestChunks ==
    (Retrieved /\ retrieval.outcome = "returned" /\ IsCorpus /\ CorpusSize >= 1) =>
        LET chunks == retrieval.chunks
            n == Len(chunks)
        IN  /\ retrieval.top_k >= 1
            /\ n = (IF retrieval.top_k < CorpusSize THEN retrieval.top_k ELSE CorpusSize)
            /\ \A i \in 1..(n - 1) : chunks[i].score <= chunks[i + 1].score
            /\ \E h \in [1..n -> 1..CorpusSize] :
                   /\ \A i, j \in 1..n : i # j => h[i] # h[j]
                   /\ \A i \in 1..n :
                          /\ chunks[i].text = documents[h[i]]
                          /\ chunks[i].score = DistanceAt(h[i])
                   /\ \A p \in 1..CorpusSize :
                          (\A i \in 1..n : h[i] # p) =>
                              \A i \in 1..n : DistanceAt(p) >= chunks[i].score

\* two of three chunks returned, the nearer first, the farthest left out
C19_Witness ==
    /\ retrieval.outcome = "returned"
    /\ CorpusSize = 3
    /\ retrieval.top_k = 2
    /\ Len(retrieval.chunks) = 2
    /\ retrieval.chunks[1].score < retrieval.chunks[2].score
    /\ \E p \in 1..3 : DistanceAt(p) > retrieval.chunks[2].score

\* top_k above the corpus size: the whole corpus is returned
C19_WitnessClamped ==
    /\ retrieval.outcome = "returned"
    /\ CorpusSize = 2
    /\ retrieval.top_k = 4
    /\ Len(retrieval.chunks) = 2

---------------------------------------------------------------------------
(* Property of the recommendation composer (checked under Spec) *)

\* C20: for every risk_level, has_backlogs and can_advance, and whether or
\* not the retrieval and the text-generation service are available,
\* _get_rag_recommendations returns at least one recommendation string, and
\* none of them is empty.
C20_AlwaysRecommends ==
    verdict.kind = "verdict" =>
        /\ Len(verdict.recommendations) >= 1
        /\ \A i \in 1..Len(verdict.recommendations) : verdict.recommendations[i] # ""

---------------------------------------------------------------------------
(* Properties of the failure handling (checked under Spec) *)

\* C21: a failure of the embedding call or of the text-generation call
\* during analyze_eligibility is caught inside the engine and converted to
\* fallback text; the call never ends by raising.
C21_FailuresCaught == verdict.kind # "raised"

---------------------------------------------------------------------------
(* Property of the chat handling (checked under SpecChat) *)

\* C22: for every student_id and every message, handle_chat ends by
\* returning a chat response whose response field is non-empty text, with
\* context and sources fields, and never by raising.
C22_ChatAlwaysAnswers ==
    chat # NoChat =>
        /\ chat.outcome = "returned"
        /\ chat.response \notin {"", <<>>}
        /\ {"context", "sources"} \subseteq DOMAIN chat

---------------------------------------------------------------------------
(* Properties of the endpoint and the agent on the same data (checked      *)
(* under SpecEndpoint)                                                     *)

\* C23: when the student does not exist, analyze_eligibility returns only
\* the not-found error outcome and the /api/eligibility endpoint answers
\* 404; no verdict field is computed and no service is called.
C23_NotFound ==
    student = NoStudent =>
        /\ verdict \in {NoVerdict, [kind |-> "error", error |-> "Student not found"]}
        /\ response \in {NoResponse,
                         [kind |-> "http_error", status_code |-> 404,
                          detail |-> "Student not found"]}
        /\ llm_calls = 0

\* both entry points have answered about a student who does not exist
C23_Witness ==
    /\ student = NoStudent
    /\ verdict.kind = "error"
    /\ response.kind = "http_error"

---------------------------------------------------------------------------
(* Further properties of the eligibility analysis (checked under Spec) *)

\* C24: when the latest attempt of a course is failing (grade E or F, status
\* not PASSED) and the course is absent from table courses, the evaluation
\* surfaces a NotFound error: no verdict is returned that leaves the course
\* out of the backlog list.
C24_MissingCourseSurfaced ==
    verdict.kind = "verdict" =>
        \A c \in CoursesIn(records) :
            (HasOneLatest(records, c) /\ FailingLatest(records, c)) =>
                c \in DOMAIN courses

\* C26: in every verdict, ADVANCE and BACKLOG are never both allowed, ADVANCE
\* is allowed only in semester 5 or 6, and has_backlogs is true exactly when
\* backlog_count > 0 and exactly when BACKLOG is allowed.
C26_AdvanceBacklogExclusive ==
    verdict.kind = "verdict" =>
        LET allowed == Elems(verdict.allowed_registration_types)
        IN  /\ ~({"ADVANCE", "BACKLOG"} \subseteq allowed)
            /\ "ADVANCE" \in allowed => verdict.current_semester \in {5, 6}
            /\ verdict.has_backlogs = (verdict.backlog_count > 0)
            /\ verdict.has_backlogs = ("BACKLOG" \in allowed)

\* a semester-5 student with cgpa 7.5 and a backlog: BACKLOG is allowed,
\* ADVANCE is not
C26_Witness ==
    /\ verdict.kind = "verdict"
    /\ verdict.current_semester = 5
    /\ verdict.cgpa = 750
    /\ verdict.backlog_count = 1
    /\ "BACKLOG" \in Elems(verdict.allowed_registration_types)
    /\ "ADVANCE" \notin Elems(verdict.allowed_registration_types)

\* a semester-6 student without backlogs who may advance
C26_WitnessAdvance ==
    /\ verdict.kind = "verdict"
    /\ verdict.current_semester = 6
    /\ ~verdict.has_backlogs
    /\ "ADVANCE" \in Elems(verdict.allowed_registration_types)

---------------------------------------------------------------------------
(* The endpoint against the agent (checked under SpecEndpoint) *)

\* C25: for the same student and the same academic records, the
\* /api/eligibility endpoint and analyze_eligibility agree on has_backlogs,
\* backlog_count, can_advance and allowed_registration_types; a course
\* failed on attempt 1 and passed on attempt 2 is a backlog in neither.
C25_EndpointAgreesWithAgent ==
    (verdict.kind = "verdict" /\ response.kind = "ok") =>
        /\ response.has_backlogs = verdict.has_backlogs
        /\ response.backlog_count = verdict.backlog_count
        /\ response.can_advance = verdict.can_advance
        /\ response.allowed_registration_types = verdict.allowed_registration_types

---------------------------------------------------------------------------
(* Properties of the registration submission (checked under                *)
(* SpecRegistration)                                                       *)

\* the credits of the stored registrations of one student in one semester
RECURSIVE RegisteredCredits(_, _, _)
RegisteredCredits(regs, student_id, semester) ==
    IF regs = <<>> THEN 0
    ELSE LET r == regs[Len(regs)]
             rest == RegisteredCredits(SubSeq(regs, 1, Len(regs) - 1), student_id, semester)
         IN  IF r.student_id = student_id /\ r.semester = semester
                /\ r.course_id \in DOMAIN courses
             THEN rest + courses[r.course_id].credits
             ELSE rest

\* C27: after any sequence of submit_registration calls (agent or endpoint),
\* the credits of all registrations stored for one student in one semester
\* sum to at most 40.
C27_CreditsWithinLimit ==
    RegisteredCredits(registrations, student.id, student.current_semester)
        <= MAX_CREDITS_PER_SEMESTER

C28_WitnessSuccess ==
    /\ submission.via = "agent"
    /\ submission.result.success
    /\ Len(submission.result.registration_ids) = 2
    /\ Len(registrations) = Len(submission.before) + 2

---------------------------------------------------------------------------
(* Properties of the vector store object (checked under SpecStore)         *)

\* C29: after any sequence of add_documents and load calls, documents,
\* metadatas and the index hold the same number of entries.
C29_LengthsAgree ==
    /\ Len(documents) = Len(metadatas)
    /\ Len(documents) = Ntotal(index)

---------------------------------------------------------------------------
(* Properties of the analysis on the store as built (checked under SpecRag) *)

\* C30: the text-generation service is invoked only when risk_level is
\* CRITICAL or can_advance is true, and only when the retrieved context has
\* at least 50 characters; with an empty store the context is the sentinel,
\* shorter than 50 characters, the service is not called and the
\* recommendations are the templated ones.
C30_LlmOnlyOnLongContext ==
    /\ llm_calls = 1 =>
          /\ verdict.kind = "verdict"
          /\ verdict.risk_level = "CRITICAL" \/ verdict.can_advance
          /\ retrieval.outcome = "returned"
          /\ context_length(retrieval) >= 50
    /\ (verdict.kind = "verdict" /\ Ntotal(index) = 0) =>
          /\ llm_calls = 0
          /\ retrieval # NoRetrieval => context_length(retrieval) < 50
          /\ verdict.recommendations =
                RuleBasedRecommendations(verdict.risk_level, verdict.has_backlogs,
                                         verdict.can_advance)

\* the service was called on a context of two chunks
C30_Witness ==
    /\ llm_calls = 1
    /\ verdict.kind = "verdict"
    /\ verdict.can_advance
    /\ Len(retrieval.chunks) = 2

\* a critical student on an empty store: the sentinel was retrieved and the
\* service was not called
C30_WitnessEmpty ==
    /\ verdict.kind = "verdict"
    /\ verdict.risk_level = "CRITICAL"
    /\ Ntotal(index) = 0
    /\ retrieval.outcome = "returned"
    /\ retrieval.context = <<"No relevant ordinance information found.">>
    /\ llm_calls = 0

\* a store of one short chunk: the context is shorter than 50 characters
\* and the service was not called
C30_WitnessShort ==
    /\ verdict.kind = "verdict"
    /\ Ntotal(index) = 1
    /\ retrieval.outcome = "returned"
    /\ Len(retrieval.chunks) = 1
    /\ llm_calls = 0

=============================================================================
